---- MODULE Spec2Model ----
(***************************************************************************)
(* Model of the AI job assistant: the session store (app/memory.py), the   *)
(* intent extractor (app/intent_parser.py), the follow-up generator        *)
(* (app/followup.py), the intent orchestrator (app/intent_handler.py),     *)
(* the retrievers and the re-rankers.                                      *)
(***************************************************************************)
EXTENDS Integers, Sequences, FiniteSets, TLC

(***************************************************************************)
(* Bounds of the model.                                                    *)
(***************************************************************************)
\* handle_user_query calls per user between two resets
MaxTurns == 4
\* handle_user_query calls per user between two resets when each turn's
\* extraction is recorded (SpecTurns)
MaxRecordedTurns == 2
\* direct append_chat_history calls are made while the log is shorter than this
MaxLog == 1

(***************************************************************************)
(* Values.  Python's None and the empty string are two distinct values;    *)
(* both are falsy.  Known values are non-empty strings.                    *)
(***************************************************************************)
None == "None"
EMPTY == ""
Users == {"default_user"}
\* the user ids of the model: the default one and the one of the tests
AllUsers == Users \cup {"test_user"}
Fields == {"role", "location", "salary", "domain", "remote"}
REQUIRED_FIELDS == {"role", "location", "salary"}
MAX_ATTEMPTS == 3

\* the values the completion service can put in a field of its answer
AnswerValues(f) ==
    CASE f = "role" -> {None, "analyst", "engineer"}
      [] f = "location" -> {None, "NYC"}
      [] f = "salary" -> {None, EMPTY, "100k"}
      [] f = "domain" -> {None, "fintech"}
      [] f = "remote" -> {None, "yes"}
AllValues == UNION {AnswerValues(f) : f \in Fields}

\* `is not None` in place of truthiness
Truthy_NotNone(v) == v # None

\* Python truthiness of a field value (str | None)
Truthy(v) == v # None /\ v # EMPTY

\* dict.get(k): None when the key is absent
Get(d, k) == IF k \in DOMAIN d THEN d[k] ELSE None

EmptyDict == [k \in {} |-> None]

(***************************************************************************)
(* app/intent_parser.py                                                    *)
(***************************************************************************)
\* Outcomes of chain.invoke (prompt | model | JsonOutputParser): an
\* exception (service failure or unparseable answer), a JSON value that is
\* not an object, or an object.  An object may omit keys and may carry a
\* key that is not one of the five fields.
FullAnswers == {a \in [Fields -> AllValues] : \A f \in Fields : a[f] \in AnswerValues(f)}

\* the answer a with the keys in omitted left out and the keys in extra added
Shape(a, omitted, extra) ==
    [k \in (Fields \ omitted) \cup extra |-> IF k \in Fields THEN a[k] ELSE "acme"]

\* answers that leave keys out, or carry a sixth key
ShapedAnswers ==
    LET base == {b \in FullAnswers : b["location"] = None /\ b["domain"] = None /\ b["remote"] = None
                                      /\ b["role"] # "engineer" /\ b["salary"] # EMPTY}
    IN {Shape(a, {"location", "remote"}, {}) : a \in base}
       \cup {Shape(a, {}, {"company"}) : a \in base}

AnswerDicts == FullAnswers \cup ShapedAnswers

ChainOutcomes ==
    { [kind |-> "raise", val |-> EmptyDict],
      [kind |-> "malformed", val |-> EmptyDict],
      [kind |-> "nondict", val |-> EmptyDict] }
    \cup { [kind |-> "dict", val |-> d] : d \in AnswerDicts }

AllNone == [k \in Fields |-> None]

\* without the normalisation to the five keys
parse_intent_try_Raw(out) ==
    IF out.kind \in {"raise", "malformed", "nondict"}
    THEN [raised |-> TRUE, value |-> EmptyDict]
    ELSE [raised |-> FALSE, value |-> out.val]

\* the body of the try block: result.get raises AttributeError when the
\* parsed value is not a dict
parse_intent_try(out) ==
    IF out.kind \in {"raise", "malformed", "nondict"}
    THEN [raised |-> TRUE, value |-> EmptyDict]
    ELSE [raised |-> FALSE, value |-> [k \in Fields |-> Get(out.val, k)]]

\* without the except clause
parse_intent_call_NoExcept(out) == parse_intent_try(out)

\* try ... except Exception: return the all-None intent
parse_intent_call(out) ==
    IF parse_intent_try(out).raised
    THEN [raised |-> FALSE, value |-> AllNone]
    ELSE parse_intent_try(out)

parse_intent(out) == parse_intent_call(out).value

(***************************************************************************)
(* app/followup.py                                                         *)
(***************************************************************************)
\* only the required fields are looked at
get_missing_fields_Required(intent) ==
    {k \in DOMAIN intent : intent[k] = None /\ k \in {"role", "location", "salary"}}

get_missing_fields(intent) == {k \in DOMAIN intent : intent[k] = None}

\* every field taken as required
is_critical_missing_AnyField(intent) ==
    \E field \in DOMAIN intent : intent[field] = None

is_critical_missing(intent) ==
    \E field \in DOMAIN intent : intent[field] = None /\ field \in REQUIRED_FIELDS

\* Outcomes of the follow-up chain: an exception, or a text
FollowupOutcomes == {"raise", "  ", " Which city? "}

\* str.strip() on the texts above
Strip(s) == IF s = "  " THEN EMPTY ELSE IF s = " Which city? " THEN "Which city?" ELSE s

\* the chain is invoked only when a field is missing
followup_invoked(intent) == get_missing_fields(intent) # {}

\* a question only for a missing required field
get_followup_question_CriticalOnly(intent, svc) ==
    IF ~is_critical_missing(intent) THEN None
    ELSE IF svc = "raise" THEN None
    ELSE Strip(svc)

get_followup_question(intent, svc) ==
    IF get_missing_fields(intent) = {} THEN None
    ELSE IF svc = "raise" THEN None
    ELSE Strip(svc)

(***************************************************************************)
(* app/memory.py                                                           *)
(***************************************************************************)
VARIABLES
    user_sessions,  \* memory.user_sessions: user id -> session
    result,         \* the value returned by the last handle_user_query call
    trace,          \* per user, the result types of the turns since the last reset
    extracted,      \* history: what parse_intent returned in the last turn
    calls,          \* history: the recorded calls with their inputs, oldest first
    pi_in,          \* extractor: the outcome of chain.invoke
    pi_ret,         \* extractor: the outcome of parse_intent
    rr_jobs,        \* re-ranker: the caller's candidate list
    rr_resp,        \* re-ranker: the behaviour of the completion service
    rr_call,        \* re-ranker: which implementation was called ("none" before)
    rr_out,         \* re-ranker: the outcome of the call
    ix_hits,        \* retriever: the index's matches for the query, best first
    rt_limit,       \* retriever: top_k
    rt_call,        \* retriever: which implementation was called ("none" before)
    rt_found,       \* retriever: the candidate list before re-ranking
    rt_out,         \* retriever: the outcome of retrieve_jobs
    fq_intent,      \* follow-up generator: the intent it is called with
    fq_svc,         \* follow-up generator: the behaviour of the follow-up chain
    fq_ret,         \* follow-up generator: what the three functions returned
    fl_jobs,        \* location filter: the candidate list
    fl_target,      \* location filter: target_location
    fl_ret,         \* location filter: the outcome of filter_by_location
    c_sessions,     \* threads: memory.user_sessions, user id -> session object
    c_heap,         \* threads: the session objects, by reference
    c_pc,           \* threads: where each handle_user_query call is
    c_loc,          \* threads: the local variables of each call
    c_in,           \* threads: the utterance of each call and the services' behaviour
    cli_script,     \* front-end: which script runs
    cli_pc,         \* front-end: where the script is
    cli_intent,     \* front-end: the intent collected so far
    cli_attempt,    \* front-end: the loop counter of run_cli_assistant
    cli_reads,      \* front-end: how many utterances were read
    h_store,        \* references: memory.user_sessions, user id -> reference
    h_heap,         \* references: the objects (session, intent dict, log list)
    h_held,         \* references: the session a caller got from get_session
    h_last          \* references: the last call on the store and what it returned

svars == <<user_sessions, result, trace, extracted, calls, pi_in, pi_ret>>
rvars == <<rr_jobs, rr_resp, rr_call, rr_out>>
qvars == <<ix_hits, rt_limit, rt_call, rt_found, rt_out>>
fvars == <<fq_intent, fq_svc, fq_ret>>
lvars == <<fl_jobs, fl_target, fl_ret>>
cvars == <<c_sessions, c_heap, c_pc, c_loc, c_in>>
ivars == <<cli_script, cli_pc, cli_intent, cli_attempt, cli_reads>>
hvars == <<h_store, h_heap, h_held, h_last>>
xvars == <<lvars, cvars, ivars, hvars>>

\* a counter that starts at 1
NewSession_AttemptsOne ==
    [intent |-> [k \in Fields |-> None], attempts |-> 1, chat_history |-> <<>>]

NewSession ==
    [intent |-> [k \in Fields |-> None], attempts |-> 0, chat_history |-> <<>>]

\* get_session: the store after the call (the session is created when absent)
get_session(store, user_id) ==
    IF user_id \in DOMAIN store THEN store
    ELSE [u \in DOMAIN store \cup {user_id} |->
            IF u = user_id THEN NewSession ELSE store[u]]

\* one log object shared by every session
append_chat_history_SharedLog(store, user_id, role, message) ==
    LET st == get_session(store, user_id)
    IN [u \in DOMAIN st |->
          [st[u] EXCEPT !.chat_history = Append(@, [role |-> role, message |-> message])]]

\* the entry inserted at the head of the log
append_chat_history_Prepend(store, user_id, role, message) ==
    LET st == get_session(store, user_id)
    IN [st EXCEPT ![user_id].chat_history =
            <<[role |-> role, message |-> message]>> \o @]

\* session["chat_history"].append({"role": role, "message": message})
append_chat_history(store, user_id, role, message) ==
    LET st == get_session(store, user_id)
    IN [st EXCEPT ![user_id].chat_history =
            Append(@, [role |-> role, message |-> message])]

\* d.pop(k) raises KeyError when k is absent and no default is given
pop_raises(d, k, has_default) == ~has_default /\ k \notin DOMAIN d

\* user_sessions.pop(user_id) in place of user_sessions.pop(user_id, None)
reset_session_raises_NoDefault(store, user_id) == pop_raises(store, user_id, FALSE)

reset_session_raises(store, user_id) == pop_raises(store, user_id, TRUE)

\* the session is left in the store
reset_session_Keep(store, user_id) == store

reset_session(store, user_id) ==
    [u \in DOMAIN store \ {user_id} |-> store[u]]

(***************************************************************************)
(* app/intent_handler.py                                                   *)
(***************************************************************************)
ErrorMessage == "I'm sorry, your request is still unclear after 3 tries. Please rephrase or try again."
RefineMessage == "I have found some matches, but I can refine them further with more information."

\* the merge without the `if v` test
MergeIntent_Overwrite(intent, new_intent) ==
    [k \in DOMAIN intent \cup DOMAIN new_intent |->
        IF k \in DOMAIN new_intent THEN new_intent[k] ELSE intent[k]]

\* for k, v in new_intent.items(): if v: session["intent"][k] = v
MergeIntent(intent, new_intent) ==
    [k \in DOMAIN intent \cup {j \in DOMAIN new_intent : Truthy(new_intent[j])} |->
        IF k \in DOMAIN new_intent /\ Truthy(new_intent[k])
        THEN new_intent[k] ELSE intent[k]]

\* only the new values are kept
merge_intents_NewOnly(existing, new) ==
    [k \in DOMAIN existing |-> Get(new, k)]

\* scripts/CLI_job_assistant.py
merge_intents(existing, new) ==
    [k \in DOMAIN existing |->
        IF Truthy(Get(new, k)) THEN Get(new, k) ELSE Get(existing, k)]

NoResult == [type |-> "none"]

\* what is unknown in the words of the specification: no value or empty
Unknown(v) == v = None \/ v = EMPTY
RequiredUnknown(intent) ==
    \E f \in REQUIRED_FIELDS : f \notin DOMAIN intent \/ Unknown(intent[f])


\* `==` in place of `>=`
AttemptsExhausted_Eq(attempts) == attempts = MAX_ATTEMPTS

\* `>` in place of `>=`
AttemptsExhausted_Gt(attempts) == attempts > MAX_ATTEMPTS

\* if session["attempts"] >= MAX_ATTEMPTS
AttemptsExhausted(attempts) == attempts >= MAX_ATTEMPTS

\* the session's intent after the merge of the turn
Merged(user_id, out) ==
    MergeIntent(get_session(user_sessions, user_id)[user_id].intent, parse_intent(out))

\* the outcomes of the follow-up chain that the turn can see: the turn that
\* exhausts the attempts does not ask, and get_followup_question does not
\* invoke the chain when no field is missing
FollowupCalls(user_id, out) ==
    IF is_critical_missing(Merged(user_id, out))
    THEN IF AttemptsExhausted(get_session(user_sessions, user_id)[user_id].attempts + 1)
         THEN {"raise"} ELSE FollowupOutcomes
    ELSE IF get_missing_fields(Merged(user_id, out)) = {} THEN {"raise"}
    ELSE FollowupOutcomes

\* the turn uses the outcome of the extraction chain only through the merged
\* intent: one outcome for each merged intent that the outcomes can give
TurnOutcomes(user_id) ==
    {CHOOSE out \in ChainOutcomes : Merged(user_id, out) = m :
        m \in {Merged(user_id, out) : out \in ChainOutcomes}}

\* and SpecTurns, which records the extracted intent, only through it
ParseOutcomes ==
    {CHOOSE out \in ChainOutcomes : parse_intent(out) = p :
        p \in {parse_intent(out) : out \in ChainOutcomes}}

\* the turn reaches get_followup_question and the chain is invoked there
TurnAsks(user_id, out) ==
    /\ is_critical_missing(Merged(user_id, out)) =>
          ~AttemptsExhausted(get_session(user_sessions, user_id)[user_id].attempts + 1)
    /\ followup_invoked(Merged(user_id, out))

HandleUserQuery(user_id, user_input, out, svc) ==
    /\ Len(trace[user_id]) < MaxTurns
    /\ LET s1 == append_chat_history(get_session(user_sessions, user_id),
                                     user_id, "user", user_input)
           merged == Merged(user_id, out)
           s2 == [s1 EXCEPT ![user_id].intent = merged]
           s3 == [s2 EXCEPT ![user_id].attempts = @ + 1]
           followup == get_followup_question(merged, svc)
       IN /\ IF parse_intent_call(out).raised
             THEN \* an exception of parse_intent leaves handle_user_query
                  /\ user_sessions' = s1
                  /\ result' = [type |-> "raised"]
             ELSE IF is_critical_missing(merged)
             THEN IF AttemptsExhausted(s3[user_id].attempts)
                  THEN /\ user_sessions' = s3
                       /\ result' = [type |-> "error",
                                     message |-> ErrorMessage,
                                     intent |-> merged]
                  ELSE /\ user_sessions' =
                             append_chat_history(s3, user_id, "assistant", followup)
                       /\ result' = [type |-> "followup_required",
                                     followup |-> followup,
                                     intent |-> merged]
             ELSE /\ user_sessions' = s2
                  /\ result' = [type |-> "intent_complete",
                                intent |-> merged,
                                followup |-> followup,
                                message |-> IF Truthy(followup)
                                            THEN RefineMessage ELSE None,
                                chat_history |-> s2[user_id].chat_history]
          /\ trace' = [trace EXCEPT ![user_id] =
                          Append(@, [type |-> result'.type,
                                     miss |-> RequiredUnknown(merged)])]
    /\ UNCHANGED <<pi_in, pi_ret, rvars, qvars, fvars, xvars>>

GetSession(user_id) ==
    /\ user_sessions' = get_session(user_sessions, user_id)
    /\ UNCHANGED <<result, trace, pi_in, pi_ret, rvars, qvars, fvars, xvars>>

AppendChatHistory(user_id, role, message) ==
    /\ user_id \in DOMAIN user_sessions =>
           Len(user_sessions[user_id].chat_history) < MaxLog
    /\ user_sessions' = append_chat_history(user_sessions, user_id, role, message)
    /\ UNCHANGED <<result, trace, pi_in, pi_ret, rvars, qvars, fvars, xvars>>

ResetSession(user_id) ==
    /\ user_sessions' = reset_session(user_sessions, user_id)
    /\ result' = NoResult
    /\ trace' = [trace EXCEPT ![user_id] = <<>>]
    /\ UNCHANGED <<pi_in, pi_ret, rvars, qvars, fvars, xvars>>

Utterances == {"Looking for a data analyst role"}
Messages == {"hello"}

\* conversations driven by handle_user_query alone, the k-th utterance
\* since the reset being the k-th text
UtteranceAt(k) ==
    CASE k = 1 -> "Looking for a data analyst role"
      [] k = 2 -> "in NYC"
      [] k = 3 -> "around 100k"
      [] k = 4 -> "fintech"
      [] OTHER -> "remote is fine"

(***************************************************************************)
(* Texts.  A title or a company name is a sequence of words, so that       *)
(* str.lower, str.strip and the substring test `a in b` are computed.      *)
(***************************************************************************)
Lower(w) ==
    CASE w = "Data" -> "data"
      [] w = "Analyst" -> "analyst"
      [] w = "Senior" -> "senior"
      [] w = "Engineer" -> "engineer"
      [] w = "Acme" -> "acme"
      [] w = "ACME" -> "acme"
      [] w = "Globex" -> "globex"
      [] w = "Chef" -> "chef"
      [] w = "New" -> "new"
      [] w = "NEW" -> "new"
      [] w = "York" -> "york"
      [] w = "Remote" -> "remote"
      [] w = "REMOTE" -> "remote"
      [] w = "Boston" -> "boston"
      [] OTHER -> w

LowerText(s) == [i \in 1..Len(s) |-> Lower(s[i])]

\* a in b, for Python strings
IsSubstr(a, b) ==
    \E i \in 0..(Len(b) - Len(a)) : \A j \in 1..Len(a) : b[i + j] = a[j]

\* s[:n]
Prefix(s, n) == SubSeq(s, 1, IF Len(s) < n THEN Len(s) ELSE n)

(***************************************************************************)
(* Job candidates, as the retrievers produce them.                         *)
(***************************************************************************)
TOP_N == 10
MAX_RERANK_INPUT == 30

\* bounds on the re-ranker's inputs
MaxJobs == 3
MaxHead == 2

CatalogueTitles == << <<"Data", "Analyst">>, <<"Senior", "Data", "Analyst">>, <<"Engineer">> >>
CatalogueCompanies == << <<"Acme">>, <<"Globex">> >>

\* the candidates after the first 30 are the only ones for a Chef at Globex
Candidate(i) ==
    [job_id |-> <<"id_", i>>,
     title |-> IF i > MAX_RERANK_INPUT THEN <<"Chef">>
               ELSE CatalogueTitles[((i - 1) % 3) + 1],
     company |-> IF i > MAX_RERANK_INPUT THEN <<"Globex">>
                 ELSE CatalogueCompanies[((i - 1) % 2) + 1],
     location |-> IF i % 4 = 0 THEN "Remote" ELSE "New York, NY",
     similarity_score |-> 100 - i]

Jobs(n) == [i \in 1..n |-> Candidate(i)]

JobCounts == (0..MaxJobs) \cup {TOP_N, TOP_N + 1, MAX_RERANK_INPUT, MAX_RERANK_INPUT + 1}

\* the reason of the entry replaced by the default one
Annotate_DefaultReason(job, rank, reason) ==
    [k \in DOMAIN job \cup {"final_rank", "selection_reason"} |->
        IF k = "final_rank" THEN rank
        ELSE IF k = "selection_reason"
             THEN [text |-> "Good match for your requirements", args |-> <<>>]
        ELSE job[k]]

\* dict(job) with final_rank and selection_reason set
Annotate(job, rank, reason) ==
    [k \in DOMAIN job \cup {"final_rank", "selection_reason"} |->
        IF k = "final_rank" THEN rank
        ELSE IF k = "selection_reason" THEN reason
        ELSE job[k]]

(***************************************************************************)
(* The completion service's behaviour on a rerank request: it raises, or   *)
(* returns a text.  A text is described by what the parsers look at: code  *)
(* fences around it, prose around the payload, and the payload.            *)
(***************************************************************************)
EntryKeys == {"title", "company", "location", "reason", "rank", "job_number"}

\* an item of the array: a record (JSON object) with the keys in `keys`,
\* those in `nulls` being null, or an item that is not a record
Entry(t, keys, nulls, title, company, reason, rank, job_number) ==
    [t |-> t, keys |-> keys, nulls |-> nulls, title |-> title, company |-> company,
     location |-> "Anywhere", reason |-> reason, rank |-> rank, job_number |-> job_number]

TextEntry(title, company) ==
    Entry("dict", {"title", "company", "location", "reason"}, {},
          title, company, [text |-> "Strong title match", args |-> <<>>], 0, 0)
IndexEntry(rank, job_number) ==
    Entry("dict", {"rank", "job_number", "reason"}, {},
          <<>>, <<>>, [text |-> "Perfect role match", args |-> <<>>], rank, job_number)
BothEntry(rank, job_number) ==
    Entry("dict", EntryKeys, {},
          Candidate(job_number).title, Candidate(job_number).company,
          [text |-> "Relevant experience", args |-> <<>>], rank, job_number)
StringEntry == Entry("str", {}, {}, <<>>, <<>>, [text |-> "", args |-> <<>>], 0, 0)
NullTitleEntry ==
    Entry("dict", {"title", "company", "reason"}, {"title"}, <<>>, <<"Acme">>, [text |-> "ok", args |-> <<>>], 0, 0)

HeadEntries ==
    { TextEntry(<<"data", "analyst">>, <<"ACME">>),
      TextEntry(<<"Chef">>, <<"Globex">>),
      IndexEntry(1, 2),
      IndexEntry(2, 0),
      StringEntry,
      NullTitleEntry }

Heads == UNION {[1..n -> HeadEntries] : n \in 0..MaxHead}

\* h followed by well-formed entries up to length m
Padded(h, m) ==
    [i \in 1..m |-> IF i <= Len(h) THEN h[i] ELSE BothEntry(i, 1)]

ItemLists ==
    {Padded(h, m) : h \in Heads, m \in (0..MaxHead) \cup {TOP_N, TOP_N + 1}}

\* arrays of the index scheme with job numbers below, in and above the range
EdgeItemLists ==
    { <<IndexEntry(1, -1), IndexEntry(2, 0), IndexEntry(3, 2),
        IndexEntry(4, MAX_RERANK_INPUT + 1), IndexEntry(5, MAX_RERANK_INPUT)>>,
      <<IndexEntry(1, MAX_RERANK_INPUT + 1)>> }

Payloads == {"empty", "words", "open", "close", "badarray", "object", "scalar"}

TextResponse(fence, prose, payload, items) ==
    [kind |-> "text", exc |-> "", fence |-> fence, prose |-> prose,
     payload |-> payload, items |-> items]
RaiseResponse(exc) ==
    [kind |-> "raise", exc |-> exc, fence |-> "none", prose |-> FALSE,
     payload |-> "empty", items |-> <<>>]

Responses ==
    {RaiseResponse(e) : e \in {"Exception", "JSONDecodeError"}}
    \cup {TextResponse(f, p, b, <<>>) :
            f \in {"none", "json"}, p \in BOOLEAN, b \in Payloads}
    \cup {TextResponse("none", FALSE, "array", it) : it \in ItemLists \cup EdgeItemLists}
    \cup {TextResponse(f, p, "array", it) :
            f \in {"none", "json", "plain"}, p \in BOOLEAN,
            it \in {Padded(<<>>, 2), Padded(<<>>, TOP_N + 1)}}

\* response.content.strip() is the empty string
IsEmptyText(resp) == resp.payload = "empty" /\ resp.fence = "none" /\ ~resp.prose
\* content.find('[') # -1, content.rfind(']') # -1
HasOpen(resp) == resp.payload \in {"open", "badarray", "array"}
HasClose(resp) == resp.payload \in {"close", "badarray", "array"}
\* json.loads of the payload succeeds
PayloadParses(resp) == resp.payload \in {"array", "object", "scalar"}

Returned(v) == [raised |-> FALSE, list |-> TRUE, value |-> v]
ReturnedOther == [raised |-> FALSE, list |-> FALSE, value |-> <<>>]
Raised == [raised |-> TRUE, list |-> FALSE, value |-> <<>>]
NoOut == [raised |-> FALSE, list |-> FALSE, value |-> <<"not called">>]

(***************************************************************************)
(* app/response_chain.py                                                   *)
(***************************************************************************)
\* a reason is a text with the values formatted into it
Text(t) == [text |-> t, args |-> <<>>]
FallbackReason(job) ==
    [text |-> "High similarity match (score: {})", args |-> <<job.similarity_score>>]
DefaultReason == Text("Good match for your requirements")

create_fallback_ranking(jobs) ==
    [i \in 1..Len(Prefix(jobs, TOP_N)) |-> Annotate(jobs[i], i, FallbackReason(jobs[i]))]

\* ranked_job.get(key, "") for a text key: "" when the key is absent
EntryText(e, key) == IF key \in e.keys THEN e[key] ELSE <<>>
\* .strip() raises AttributeError on None
EntryRaises(e) ==
    e.t = "dict" /\ ({"title", "company"} \cap e.nulls # {})

Matches(e, job) ==
    LET rt == LowerText(EntryText(e, "title"))
        rc == LowerText(EntryText(e, "company"))
        ot == LowerText(job.title)
        oc == LowerText(job.company)
    IN (IsSubstr(rt, ot) \/ IsSubstr(ot, rt)) /\ (IsSubstr(rc, oc) \/ IsSubstr(oc, rc))

\* the last matching job in place of the first
FirstMatch_Last(e, jobs) ==
    IF \E j \in 1..Len(jobs) : Matches(e, jobs[j])
    THEN CHOOSE j \in 1..Len(jobs) :
            Matches(e, jobs[j]) /\ \A k \in (j + 1)..Len(jobs) : ~Matches(e, jobs[k])
    ELSE 0

\* the index of the first matching job, 0 when there is none
FirstMatch(e, jobs) ==
    IF \E j \in 1..Len(jobs) : Matches(e, jobs[j])
    THEN CHOOSE j \in 1..Len(jobs) :
            Matches(e, jobs[j]) /\ \A k \in 1..(j - 1) : ~Matches(e, jobs[k])
    ELSE 0

\* the declared location left out
Placeholder_UnknownLocation(e, i) ==
    [final_rank |-> i,
     job_id |-> <<"ranked_", i>>,
     title |-> EntryText(e, "title"),
     company |-> EntryText(e, "company"),
     location |-> "Unknown",
     similarity_score |-> 0,
     selection_reason |-> IF "reason" \in e.keys THEN e.reason ELSE DefaultReason]

\* placeholder_job, for entry e at position i of the response
Placeholder(e, i) ==
    [final_rank |-> i,
     job_id |-> <<"ranked_", i>>,
     title |-> EntryText(e, "title"),
     company |-> EntryText(e, "company"),
     location |-> IF "location" \in e.keys THEN e.location ELSE "Unknown",
     similarity_score |-> 0,
     selection_reason |-> IF "reason" \in e.keys THEN e.reason ELSE DefaultReason]

ChainItem(e, i, jobs) ==
    IF FirstMatch(e, jobs) # 0
    THEN Annotate(jobs[FirstMatch(e, jobs)], i,
                  IF "reason" \in e.keys THEN e.reason ELSE DefaultReason)
    ELSE Placeholder(e, i)

\* without the isinstance test: an item for every entry
RECURSIVE ChainLoop_NoSkip(_, _, _)
ChainLoop_NoSkip(rankings, i, jobs) ==
    IF i > Len(rankings) THEN <<>>
    ELSE <<ChainItem(rankings[i], i, jobs)>> \o ChainLoop_NoSkip(rankings, i + 1, jobs)

\* the loop over enumerate(rankings[:10], 1), from entry i on
RECURSIVE ChainLoop(_, _, _)
ChainLoop(rankings, i, jobs) ==
    IF i > Len(rankings) THEN <<>>
    ELSE IF rankings[i].t # "dict" THEN ChainLoop(rankings, i + 1, jobs)
    ELSE <<ChainItem(rankings[i], i, jobs)>> \o ChainLoop(rankings, i + 1, jobs)

chain_rerank_jobs(all_jobs, resp) ==
    LET jobs == Prefix(all_jobs, MAX_RERANK_INPUT)
        rankings == Prefix(resp.items, TOP_N)
    IN IF resp.kind = "raise"
       THEN IF resp.exc = "JSONDecodeError"
            THEN Raised     \* the handler reads `content`, which is unbound
            ELSE Returned(create_fallback_ranking(jobs))
       ELSE IF IsEmptyText(resp) THEN Returned(create_fallback_ranking(jobs))
       ELSE IF ~HasOpen(resp) \/ ~HasClose(resp) THEN Returned(create_fallback_ranking(jobs))
       ELSE IF resp.payload # "array" THEN Returned(create_fallback_ranking(jobs))
       ELSE IF \E i \in 1..Len(rankings) : EntryRaises(rankings[i])
            THEN Returned(create_fallback_ranking(jobs))
       ELSE Returned(Prefix(ChainLoop(rankings, 1, jobs), TOP_N))

(***************************************************************************)
(* app/job_ranker.py                                                       *)
(***************************************************************************)
\* the candidate indexed without the range test
RankerEntryRaises_Unguarded(e, jobs) ==
    \/ e.t # "dict"
    \/ "job_number" \notin e.keys
    \/ "job_number" \in e.nulls
    \/ ~(0 <= e.job_number - 1 /\ e.job_number - 1 < Len(jobs))
    \/ ~({"rank", "reason"} \subseteq e.keys)

\* rank_info["job_number"] - 1, rank_info["rank"], rank_info["reason"]
RankerEntryRaises(e, jobs) ==
    \/ e.t # "dict"
    \/ "job_number" \notin e.keys
    \/ "job_number" \in e.nulls
    \/ /\ 0 <= e.job_number - 1 /\ e.job_number - 1 < Len(jobs)
       /\ ~({"rank", "reason"} \subseteq e.keys)

RECURSIVE RankerLoop(_, _, _)
RankerLoop(rankings, i, jobs) ==
    IF i > Len(rankings) THEN <<>>
    ELSE LET job_idx == rankings[i].job_number - 1
         IN IF 0 <= job_idx /\ job_idx < Len(jobs)
            THEN <<Annotate(jobs[job_idx + 1], rankings[i].rank, rankings[i].reason)>>
                 \o RankerLoop(rankings, i + 1, jobs)
            ELSE RankerLoop(rankings, i + 1, jobs)

\* without `if len(jobs) > 30: jobs = jobs[:30]`
ranker_rerank_jobs_NoTruncate(all_jobs, resp) ==
    LET jobs == all_jobs
    IN IF resp.kind = "raise" THEN Returned(Prefix(jobs, TOP_N))
       ELSE IF resp.fence # "none" \/ resp.prose \/ ~PayloadParses(resp)
            THEN Returned(Prefix(jobs, TOP_N))
       ELSE IF resp.payload # "array" THEN Returned(Prefix(jobs, TOP_N))
       ELSE IF \E i \in 1..Len(resp.items) : RankerEntryRaises(resp.items[i], jobs)
            THEN Returned(Prefix(jobs, TOP_N))
       ELSE Returned(Prefix(RankerLoop(resp.items, 1, jobs), TOP_N))

ranker_rerank_jobs(all_jobs, resp) ==
    LET jobs == Prefix(all_jobs, MAX_RERANK_INPUT)
    IN IF resp.kind = "raise" THEN Returned(Prefix(jobs, TOP_N))
       ELSE IF resp.fence # "none" \/ resp.prose \/ ~PayloadParses(resp)
            THEN Returned(Prefix(jobs, TOP_N))
       ELSE IF resp.payload # "array" THEN Returned(Prefix(jobs, TOP_N))
       ELSE IF \E i \in 1..Len(resp.items) : RankerEntryRaises(resp.items[i], jobs)
            THEN Returned(Prefix(jobs, TOP_N))
       ELSE Returned(Prefix(RankerLoop(resp.items, 1, jobs), TOP_N))

(***************************************************************************)
(* app/job_response_final.py                                               *)
(***************************************************************************)
rerank_with_llm(jobs, resp) ==
    IF resp.kind = "raise" THEN Raised
    ELSE IF resp.prose \/ ~PayloadParses(resp) THEN Returned(<<>>)
    ELSE IF resp.payload = "array" THEN Returned(resp.items)
    ELSE ReturnedOther

RerankJobsChain ==
    /\ rr_call = "none"
    /\ rr_call' = "response_chain"
    /\ rr_out' = chain_rerank_jobs(rr_jobs, rr_resp)
    /\ UNCHANGED <<rr_jobs, rr_resp, svars, qvars, fvars, xvars>>

RerankJobsRanker ==
    /\ rr_call = "none"
    /\ rr_call' = "job_ranker"
    /\ rr_out' = ranker_rerank_jobs(rr_jobs, rr_resp)
    /\ UNCHANGED <<rr_jobs, rr_resp, svars, qvars, fvars, xvars>>

RerankWithLLM ==
    /\ rr_call = "none"
    /\ rr_call' = "job_response_final"
    /\ rr_out' = rerank_with_llm(rr_jobs, rr_resp)
    /\ UNCHANGED <<rr_jobs, rr_resp, svars, qvars, fvars, xvars>>

(***************************************************************************)
(* The vector index.  ix_hits is the ranked list of the index's matches    *)
(* for the query; similarity_search_with_score(query, k) returns the k     *)
(* best of them, each with its score.                                      *)
(***************************************************************************)
MaxHits == 4
MaxLimit == 2

Doc(id, title, company, location) ==
    [id |-> id, title |-> title, company |-> company, location |-> location,
     page_content |-> <<"posting ", id>>]

Docs ==
    { Doc(1, "Data Analyst", "Acme", "NYC"),
      Doc(2, "Data Analyst", "Acme", "NYC"),
      Doc(3, "Data Analyst", "Globex", "NYC"),
      Doc(4, "Data Analyst", "Acme", "Remote") }

HitLists == UNION {[1..n -> Docs] : n \in 0..MaxHits}

\* the (doc, score) pairs returned for k; the score is the distance, which
\* grows with the position
similarity_search_with_score(hits, k) ==
    [i \in 1..(IF Len(hits) < k THEN Len(hits) ELSE k) |->
        [doc |-> hits[i], score |-> i]]

Key(doc) == <<doc.title, doc.company, doc.location>>

(***************************************************************************)
(* app/job_response_final.py: JobRetriever.retrieve_jobs                   *)
(***************************************************************************)
FinalCandidate(hit) ==
    [title |-> hit.doc.title, company |-> hit.doc.company,
     location |-> hit.doc.location, short_description |-> hit.doc.page_content,
     similarity_score |-> hit.score]

\* the loop over results from hit i on; seen is the set of keys met so far
RECURSIVE DedupLoop(_, _, _, _, _)
DedupLoop(results, i, seen, deduped, top_k) ==
    IF i > Len(results) THEN deduped
    ELSE IF Key(results[i].doc) \in seen
         THEN DedupLoop(results, i + 1, seen, deduped, top_k)
    ELSE IF Len(deduped) + 1 >= top_k
         THEN Append(deduped, FinalCandidate(results[i]))
    ELSE DedupLoop(results, i + 1, seen \cup {Key(results[i].doc)},
                   Append(deduped, FinalCandidate(results[i])), top_k)

\* k = top_k in place of k = top_k * 2
final_deduped_SingleK(hits, top_k) ==
    DedupLoop(similarity_search_with_score(hits, top_k), 1, {}, <<>>, top_k)

final_deduped(hits, top_k) ==
    DedupLoop(similarity_search_with_score(hits, top_k * 2), 1, {}, <<>>, top_k)

(***************************************************************************)
(* app/job_retriever.py: JobRetriever.retrieve_jobs                        *)
(***************************************************************************)
retriever_retrieve_jobs(hits, top_k) ==
    LET results == similarity_search_with_score(hits, top_k)
    IN [i \in 1..Len(results) |->
          [rank |-> i, job_id |-> results[i].doc.id,
           title |-> results[i].doc.title, company |-> results[i].doc.company,
           location |-> results[i].doc.location,
           description |-> results[i].doc.page_content,
           similarity_score |-> results[i].score]]

\* the completion service's behaviours tried with the retriever
RetrieveResponses ==
    { RaiseResponse("Exception"),
      TextResponse("none", FALSE, "empty", <<>>),
      TextResponse("json", FALSE, "array", Padded(<<>>, 2)) }

RetrieveJobsFinal(resp) ==
    /\ rt_call = "none"
    /\ rt_call' = "job_response_final"
    /\ rt_found' = final_deduped(ix_hits, rt_limit)
    /\ rt_out' = rerank_with_llm(rt_found', resp)
    /\ UNCHANGED <<ix_hits, rt_limit, svars, rvars, fvars, xvars>>

RetrieveJobsRetriever ==
    /\ rt_call = "none"
    /\ rt_call' = "job_retriever"
    /\ rt_found' = retriever_retrieve_jobs(ix_hits, rt_limit)
    /\ rt_out' = Returned(rt_found')
    /\ UNCHANGED <<ix_hits, rt_limit, svars, rvars, fvars, xvars>>

(***************************************************************************)
(* The location filter of the retriever, job_retriever.filter_by_location. *)
(* A location and a target are texts, sequences of words; a target is      *)
(* None or a text, and a candidate may come without a location key.        *)
(***************************************************************************)
MaxFilterJobs == 3

NoTarget == [none |-> TRUE, text |-> <<>>]
TargetText(t) == [none |-> FALSE, text |-> t]

\* not target_location
TargetFalsy(target) == target.none \/ target.text = <<>>

FilterLocations ==
    { <<"New", "York">>, <<"Remote">>, <<"REMOTE", "Boston">>, <<"Boston">>, <<>> }

FilterTargets ==
    { NoTarget, TargetText(<<>>), TargetText(<<"NEW", "York">>), TargetText(<<"york">>),
      TargetText(<<"Remote">>), TargetText(<<"Boston">>), TargetText(<<"Chef">>) }

\* a candidate with a location, and one without the key
Located(i, loc) == [job_id |-> i, location |-> loc]
Unlocated(i) == [job_id |-> i]
FilterCandidates(i) == {Located(i, loc) : loc \in FilterLocations} \cup {Unlocated(i)}

FilterJobLists ==
    UNION { {js \in [1..n -> UNION {FilterCandidates(i) : i \in 1..n}] :
                \A i \in 1..n : js[i].job_id = i} : n \in 0..MaxFilterJobs }

\* job.get("location", "")
JobLocation(job) == IF "location" \in DOMAIN job THEN job.location ELSE <<>>

FilterKeeps_CaseSensitive(job, target) ==
    \/ IsSubstr(LowerText(target.text), JobLocation(job))
    \/ IsSubstr(<<"remote">>, JobLocation(job))
\* target in job.get("location", "").lower() or "remote" in job.get("location", "").lower()
FilterKeeps(job, target) ==
    \/ IsSubstr(LowerText(target.text), LowerText(JobLocation(job)))
    \/ IsSubstr(<<"remote">>, LowerText(JobLocation(job)))

RECURSIVE FilterLoop(_, _)
FilterLoop(jobs, target) ==
    IF jobs = <<>> THEN <<>>
    ELSE (IF FilterKeeps(Head(jobs), target) THEN <<Head(jobs)>> ELSE <<>>)
            \o FilterLoop(Tail(jobs), target)

filter_by_location(jobs, target_location) ==
    IF TargetFalsy(target_location) THEN jobs
    ELSE FilterLoop(jobs, target_location)

NotFiltered == [called |-> FALSE, value |-> <<>>]

FilterByLocation ==
    /\ ~fl_ret.called
    /\ fl_ret' = [called |-> TRUE, value |-> filter_by_location(fl_jobs, fl_target)]
    /\ UNCHANGED <<fl_jobs, fl_target, svars, rvars, qvars, fvars, cvars, ivars, hvars>>

(***************************************************************************)
(* Two handle_user_query calls of one user running in two threads.  The    *)
(* session store is a dict of references to session objects; a step is one *)
(* access to the store or to a session object.  Neither memory.py nor      *)
(* intent_handler.py takes a lock.                                         *)
(***************************************************************************)
Threads == {1, 2}

ThreadUser == "default_user"

\* handle_user_query as a function of the store: the store when it returns
TurnStore(store, user_id, user_input, out, svc) ==
    LET s1 == append_chat_history(get_session(store, user_id), user_id, "user", user_input)
        merged == MergeIntent(s1[user_id].intent, parse_intent(out))
        s2 == [s1 EXCEPT ![user_id].intent = merged]
        s3 == [s2 EXCEPT ![user_id].attempts = @ + 1]
    IN  IF parse_intent_call(out).raised THEN s1
        ELSE IF is_critical_missing(merged)
        THEN IF AttemptsExhausted(s3[user_id].attempts) THEN s3
             ELSE append_chat_history(s3, user_id, "assistant",
                                      get_followup_question(merged, svc))
        ELSE s2

\* what each thread is called with, and what the two chains answer to it
ThreadTexts == [t \in Threads |-> IF t = 1 THEN "Looking for a data analyst role" ELSE "in NYC"]
ThreadAnswers ==
    [t \in Threads |->
        IF t = 1
        THEN {[role |-> None, location |-> None, salary |-> None, domain |-> None, remote |-> None],
              [role |-> "analyst", location |-> "Remote", salary |-> None, domain |-> None, remote |-> None]}
        ELSE {[role |-> None, location |-> None, salary |-> None, domain |-> None, remote |-> None],
              [role |-> "engineer", location |-> "NYC", salary |-> "100k", domain |-> None, remote |-> None]}]
ThreadFollowups == [t \in Threads |-> IF t = 1 THEN " Which city? " ELSE "raise"]
ThreadCalls ==
    { c \in [Threads -> [text : {ThreadTexts[t] : t \in Threads},
                         out : {[kind |-> "dict", val |-> d] :
                                   d \in UNION {ThreadAnswers[t] : t \in Threads}},
                         svc : {ThreadFollowups[t] : t \in Threads}]] :
        \A t \in Threads : /\ c[t].text = ThreadTexts[t]
                           /\ c[t].out.val \in ThreadAnswers[t]
                           /\ c[t].svc = ThreadFollowups[t] }

\* the store when the two calls start: empty, or holding the user's session
ThreadStores == {EmptyDict, get_session(EmptyDict, ThreadUser)}

\* the items of new_intent that the merge loop stores, in the order of the dict
RECURSIVE TruthyItems(_, _)
TruthyItems(new_intent, keys) ==
    IF keys = <<>> THEN <<>>
    ELSE (IF Head(keys) \in DOMAIN new_intent /\ Truthy(new_intent[Head(keys)])
          THEN <<Head(keys)>> ELSE <<>>) \o TruthyItems(new_intent, Tail(keys))

FieldOrder == <<"role", "location", "salary", "domain", "remote">>

NoLocals == [session |-> 0, target |-> 0, found |-> FALSE, ret |-> "none",
             new_intent |-> AllNone, items |-> <<>>, tmp |-> 0, followup |-> None,
             result |-> "none"]

\* the store and the heap for a store given as a function of the user id
HeapOf(store) == IF ThreadUser \in DOMAIN store THEN <<store[ThreadUser]>> ELSE <<>>
RefsOf(store) == [u \in DOMAIN store |-> 1]

\* the user's session, as the store holds it
StoredSession == c_heap[c_sessions[ThreadUser]]

CStep(t, pc, loc) ==
    /\ c_pc' = [c_pc EXCEPT ![t] = pc]
    /\ c_loc' = [c_loc EXCEPT ![t] = loc]
    /\ UNCHANGED <<c_in, svars, rvars, qvars, fvars, lvars, ivars, hvars>>

\* session = get_session(user_id): the call
CallGetSession(t) ==
    /\ c_pc[t] = "start"
    /\ CStep(t, "gs_check", [c_loc[t] EXCEPT !.ret = "bind"])
    /\ UNCHANGED <<c_sessions, c_heap>>

\* if user_id not in user_sessions
GsCheck(t) ==
    /\ c_pc[t] = "gs_check"
    /\ LET found == ThreadUser \in DOMAIN c_sessions
       IN CStep(t, IF found THEN "gs_ret" ELSE "gs_create", [c_loc[t] EXCEPT !.found = found])
    /\ UNCHANGED <<c_sessions, c_heap>>

\* user_sessions[user_id] = {...}
GsCreate(t) ==
    /\ c_pc[t] = "gs_create"
    /\ c_heap' = Append(c_heap, NewSession)
    /\ c_sessions' = [u \in DOMAIN c_sessions \cup {ThreadUser} |->
                         IF u = ThreadUser THEN Len(c_heap) + 1 ELSE c_sessions[u]]
    /\ CStep(t, "gs_ret", c_loc[t])

\* return user_sessions[user_id], to handle_user_query or to append_chat_history;
\* the subscription raises KeyError when the key has been removed meanwhile
GsReturn(t) ==
    /\ c_pc[t] = "gs_ret"
    /\ LET ref == IF ThreadUser \in DOMAIN c_sessions THEN c_sessions[ThreadUser] ELSE 0
       IN IF ref = 0
          THEN CStep(t, "done", [c_loc[t] EXCEPT !.result = "KeyError"])
          ELSE IF c_loc[t].ret = "bind"
          THEN \* append_chat_history(user_id, "user", user_input) calls get_session
               CStep(t, "gs_check", [c_loc[t] EXCEPT !.session = ref, !.ret = "append_user"])
          ELSE CStep(t, c_loc[t].ret, [c_loc[t] EXCEPT !.target = ref])
    /\ UNCHANGED <<c_sessions, c_heap>>

\* session["chat_history"].append(...) of the utterance, then parse_intent,
\* which touches no shared state
AppendUser(t) ==
    /\ c_pc[t] = "append_user"
    /\ c_heap' = [c_heap EXCEPT ![c_loc[t].target].chat_history =
                     Append(@, [role |-> "user", message |-> c_in.call[t].text])]
    /\ LET new_intent == parse_intent(c_in.call[t].out)
           items == TruthyItems(new_intent, FieldOrder)
       IN CStep(t, IF items = <<>> THEN "check" ELSE "merge",
                [c_loc[t] EXCEPT !.new_intent = new_intent, !.items = items])
    /\ UNCHANGED c_sessions

\* session["intent"][k] = v, one item of the loop
MergeItem(t) ==
    /\ c_pc[t] = "merge"
    /\ LET k == Head(c_loc[t].items)
       IN c_heap' = [c_heap EXCEPT ![c_loc[t].session].intent =
                        [j \in DOMAIN @ \cup {k} |->
                            IF j = k THEN c_loc[t].new_intent[k] ELSE @[j]]]
    /\ CStep(t, IF Tail(c_loc[t].items) = <<>> THEN "check" ELSE "merge",
             [c_loc[t] EXCEPT !.items = Tail(@)])
    /\ UNCHANGED c_sessions

\* if is_critical_missing(session["intent"])
CheckMissing(t) ==
    /\ c_pc[t] = "check"
    /\ CStep(t, IF is_critical_missing(c_heap[c_loc[t].session].intent)
                THEN "inc_load" ELSE "optional", c_loc[t])
    /\ UNCHANGED <<c_sessions, c_heap>>

\* session["attempts"] += 1: the load
AttemptsLoad(t) ==
    /\ c_pc[t] = "inc_load"
    /\ CStep(t, "inc_store", [c_loc[t] EXCEPT !.tmp = c_heap[c_loc[t].session].attempts])
    /\ UNCHANGED <<c_sessions, c_heap>>

\* session["attempts"] += 1: the store
AttemptsStore(t) ==
    /\ c_pc[t] = "inc_store"
    /\ c_heap' = [c_heap EXCEPT ![c_loc[t].session].attempts = c_loc[t].tmp + 1]
    /\ CStep(t, "cmp", c_loc[t])
    /\ UNCHANGED c_sessions

\* if session["attempts"] >= MAX_ATTEMPTS: return the error
CompareAttempts(t) ==
    /\ c_pc[t] = "cmp"
    /\ IF AttemptsExhausted(c_heap[c_loc[t].session].attempts)
       THEN CStep(t, "done", [c_loc[t] EXCEPT !.result = "error"])
       ELSE CStep(t, "ask", c_loc[t])
    /\ UNCHANGED <<c_sessions, c_heap>>

\* followup = get_followup_question(session["intent"]), then the call of
\* append_chat_history(user_id, "assistant", followup)
AskThread(t) ==
    /\ c_pc[t] = "ask"
    /\ CStep(t, "gs_check",
             [c_loc[t] EXCEPT !.followup = get_followup_question(
                                              c_heap[c_loc[t].session].intent, c_in.call[t].svc),
                              !.ret = "append_asst"])
    /\ UNCHANGED <<c_sessions, c_heap>>

\* session["chat_history"].append(...) of the question, and the return
AppendAssistant(t) ==
    /\ c_pc[t] = "append_asst"
    /\ c_heap' = [c_heap EXCEPT ![c_loc[t].target].chat_history =
                     Append(@, [role |-> "assistant", message |-> c_loc[t].followup])]
    /\ CStep(t, "done", [c_loc[t] EXCEPT !.result = "followup_required"])
    /\ UNCHANGED c_sessions

\* followup_optional = get_followup_question(session["intent"]), and the return
OptionalThread(t) ==
    /\ c_pc[t] = "optional"
    /\ CStep(t, "done",
             [c_loc[t] EXCEPT !.followup = get_followup_question(
                                              c_heap[c_loc[t].session].intent, c_in.call[t].svc),
                              !.result = "intent_complete"])
    /\ UNCHANGED <<c_sessions, c_heap>>

\* reset_session(user_id) called by another thread: user_sessions.pop(user_id, None)
ResetStep(t) ==
    /\ c_pc[t] = "reset"
    /\ c_sessions' = [u \in DOMAIN c_sessions \ {ThreadUser} |-> c_sessions[u]]
    /\ CStep(t, "done", [c_loc[t] EXCEPT !.result = "reset"])
    /\ UNCHANGED c_heap

NoThreadCalls == [store |-> EmptyDict,
                  call |-> [t \in Threads |->
                              [text |-> ThreadTexts[t],
                               out |-> [kind |-> "dict", val |-> AllNone],
                               svc |-> "raise"]]]

(***************************************************************************)
(* The intent-collection loops of the front-ends: run_cli_assistant of     *)
(* scripts/CLI_job_assistant.py (CLI_job_reponse.py and CLI_retrieving.py  *)
(* hold the same loop) and main of scripts/final_CLI_job_assistant.py.     *)
(* A step reads one utterance and handles it; cli_pc is "read" while the   *)
(* script is about to read, "complete" when it goes on with the intent and *)
(* "failed" when it has printed the failure message.                       *)
(***************************************************************************)
\* no script stops main's loop: the model stops reading here
MaxReads == 5

Scripts == {"run_cli_assistant", "main"}

\* for attempt in range(MAX_ATTEMPTS): one pass of the body of the loop, on
\* the loop's variables
CliPass(out) ==
    /\ cli_script = "run_cli_assistant"
    /\ cli_pc = "read"
    /\ cli_attempt < MAX_ATTEMPTS
    /\ LET intent == merge_intents(cli_intent, parse_intent(out))
       IN /\ cli_intent' = intent
          /\ cli_reads' = cli_reads + 1
          /\ IF ~is_critical_missing(intent)
             THEN \* break, and the test after the loop passes
                  cli_attempt' = cli_attempt /\ cli_pc' = "complete"
             ELSE /\ cli_attempt' = cli_attempt + 1
                  /\ cli_pc' = IF cli_attempt + 1 < MAX_ATTEMPTS THEN "read" ELSE "failed"
    /\ UNCHANGED cli_script

ReadCli(out) ==
    /\ CliPass(out)
    /\ UNCHANGED <<svars, rvars, qvars, fvars, lvars, cvars, hvars>>

\* the type of the result of handle_user_query, as a function of the store
TurnType(store, user_id, out) ==
    LET session == get_session(store, user_id)[user_id]
        merged == MergeIntent(session.intent, parse_intent(out))
    IN  IF parse_intent_call(out).raised THEN "raised"
        ELSE IF is_critical_missing(merged)
        THEN IF AttemptsExhausted(session.attempts + 1)
             THEN "error" ELSE "followup_required"
        ELSE "intent_complete"

\* the same extraction result given to one pass of run_cli_assistant's loop
\* and to one handle_user_query call
ReadBoth(out, svc) ==
    /\ CliPass(out)
    /\ user_sessions' = TurnStore(user_sessions, ThreadUser, UtteranceAt(cli_reads + 1), out, svc)
    /\ result' = [type |-> TurnType(user_sessions, ThreadUser, out)]
    /\ UNCHANGED <<trace, extracted, calls, pi_in, pi_ret, rvars, qvars, fvars, lvars, cvars, hvars>>

\* main: the query and its parse, before the loop
ReadMainQuery(out) ==
    /\ cli_script = "main"
    /\ cli_pc = "query"
    /\ cli_intent' = parse_intent(out)
    /\ cli_reads' = cli_reads + 1
    /\ cli_pc' = IF is_critical_missing(cli_intent') THEN "read" ELSE "complete"
    /\ UNCHANGED <<cli_script, cli_attempt, svars, rvars, qvars, fvars, lvars, cvars, hvars>>

\* main: one pass of the body of `while is_critical_missing(intent)`
ReadMainReply(out) ==
    /\ cli_script = "main"
    /\ cli_pc = "read"
    /\ cli_reads < MaxReads
    /\ cli_intent' = MergeIntent(cli_intent, parse_intent(out))
    /\ cli_reads' = cli_reads + 1
    /\ cli_pc' = IF is_critical_missing(cli_intent') THEN "read" ELSE "complete"
    /\ UNCHANGED <<cli_script, cli_attempt, svars, rvars, qvars, fvars, lvars, cvars, hvars>>

(***************************************************************************)
(* app/memory.py with its objects: user_sessions maps a user id to a       *)
(* reference to a session object, which refers to its intent dict and to   *)
(* its log list.  A caller keeps the reference get_session returned and    *)
(* writes through it, as handle_user_query does.                           *)
(***************************************************************************)
MaxSessions == 2
MaxHeldWrites == 1

SessionObject(intent, chat_history) ==
    [kind |-> "session", intent |-> intent, attempts |-> 0, chat_history |-> chat_history,
     val |-> <<>>]
DictObject(d) == [kind |-> "dict", intent |-> 0, attempts |-> 0, chat_history |-> 0, val |-> d]
ListObject(l) == [kind |-> "list", intent |-> 0, attempts |-> 0, chat_history |-> 0, val |-> l]

\* the session built from one intent dict and one log list kept by the module
AllocSession_SharedTemplate(heap) ==
    IF heap = <<>>
    THEN <<DictObject(AllNone), ListObject(<<>>), SessionObject(1, 2)>>
    ELSE Append(heap, SessionObject(1, 2))

\* the dict display of get_session: a new intent dict, a new list and a new
\* session dict; the session is the last object of the heap returned
AllocSession(heap) ==
    heap \o <<DictObject(AllNone), ListObject(<<>>),
              SessionObject(Len(heap) + 1, Len(heap) + 2)>>

\* the session behind a reference, as a value
SessionAt(heap, ref) ==
    [intent |-> heap[heap[ref].intent].val,
     attempts |-> heap[ref].attempts,
     chat_history |-> heap[heap[ref].chat_history].val]

SessionRefs(heap) == {r \in 1..Len(heap) : heap[r].kind = "session"}

NoStoreCall == [op |-> "none", user_id |-> "", created |-> FALSE, ret |-> 0]

HFrame == UNCHANGED <<svars, rvars, qvars, fvars, lvars, cvars, ivars>>

\* get_session(user_id); the caller keeps the session or drops it
HeapGetSession(user_id, keep) ==
    /\ user_id \in DOMAIN h_store \/ Cardinality(SessionRefs(h_heap)) < MaxSessions
    /\ IF user_id \in DOMAIN h_store
       THEN UNCHANGED <<h_store, h_heap>>
       ELSE /\ h_heap' = AllocSession(h_heap)
            /\ h_store' = [u \in DOMAIN h_store \cup {user_id} |->
                              IF u = user_id THEN Len(h_heap') ELSE h_store[u]]
    /\ h_last' = [op |-> "get_session", user_id |-> user_id,
                  created |-> user_id \notin DOMAIN h_store, ret |-> h_store'[user_id]]
    /\ h_held' = IF keep THEN h_store'[user_id] ELSE h_held
    /\ HFrame

\* reset_session(user_id): user_sessions.pop(user_id, None)
HeapResetSession(user_id) ==
    /\ h_store' = [u \in DOMAIN h_store \ {user_id} |-> h_store[u]]
    /\ h_last' = [op |-> "reset_session", user_id |-> user_id, created |-> FALSE, ret |-> 0]
    /\ UNCHANGED <<h_heap, h_held>>
    /\ HFrame

\* session["intent"][k] = v through the kept reference
HeapWriteIntent(k, v) ==
    /\ h_held # 0
    /\ h_heap[h_heap[h_held].intent].val[k] = None
    /\ h_heap' = [h_heap EXCEPT ![h_heap[h_held].intent].val[k] = v]
    /\ h_last' = [op |-> "write", user_id |-> "", created |-> FALSE, ret |-> 0]
    /\ UNCHANGED <<h_store, h_held>>
    /\ HFrame

\* session["attempts"] += 1 and session["chat_history"].append(...) through
\* the kept reference
HeapCountAndLog(message) ==
    /\ h_held # 0
    /\ h_heap[h_held].attempts < MaxHeldWrites
    /\ Len(h_heap[h_heap[h_held].chat_history].val) < MaxHeldWrites
    /\ h_heap' = [h_heap EXCEPT ![h_held].attempts = @ + 1,
                                ![h_heap[h_held].chat_history].val =
                                    Append(@, [role |-> "user", message |-> message])]
    /\ h_last' = [op |-> "write", user_id |-> "", created |-> FALSE, ret |-> 0]
    /\ UNCHANGED <<h_store, h_held>>
    /\ HFrame

(***************************************************************************)
(* Specifications                                                          *)
(***************************************************************************)
vars == <<user_sessions, result, trace, extracted, calls, pi_in, pi_ret, rr_jobs, rr_resp, rr_call, rr_out,
          ix_hits, rt_limit, rt_call, rt_found, rt_out, fq_intent, fq_svc, fq_ret,
          fl_jobs, fl_target, fl_ret, c_sessions, c_heap, c_pc, c_loc, c_in,
          cli_script, cli_pc, cli_intent, cli_attempt, cli_reads,
          h_store, h_heap, h_held, h_last>>

NotCalled == [raised |-> FALSE, value |-> [k \in {"not called"} |-> None]]
NotAsked == [called |-> FALSE, missing |-> {}, critical |-> FALSE,
             invoked |-> FALSE, question |-> None]

SessionInit ==
    /\ user_sessions = EmptyDict
    /\ pi_in = [kind |-> "raise", val |-> EmptyDict]
    /\ pi_ret = NotCalled
    /\ extracted = EmptyDict
    /\ calls = <<>>
    /\ result = NoResult
    /\ trace = [u \in AllUsers |-> <<>>]

RerankIdle ==
    /\ rr_jobs = <<>>
    /\ rr_resp = RaiseResponse("Exception")
    /\ rr_call = "none"
    /\ rr_out = NoOut

RetrieveIdle ==
    /\ ix_hits = <<>>
    /\ rt_limit = 0
    /\ rt_call = "none"
    /\ rt_found = <<>>
    /\ rt_out = NoOut

FollowupIdle ==
    /\ fq_intent = AllNone
    /\ fq_svc = "raise"
    /\ fq_ret = NotAsked

FilterIdle ==
    /\ fl_jobs = <<>>
    /\ fl_target = NoTarget
    /\ fl_ret = NotFiltered

ConcurrentIdle ==
    /\ c_sessions = EmptyDict
    /\ c_heap = <<>>
    /\ c_pc = [t \in Threads |-> "done"]
    /\ c_loc = [t \in Threads |-> NoLocals]
    /\ c_in = NoThreadCalls

CliIdle ==
    /\ cli_script = "none"
    /\ cli_pc = "done"
    /\ cli_intent = AllNone
    /\ cli_attempt = 0
    /\ cli_reads = 0

HeapIdle ==
    /\ h_store = EmptyDict
    /\ h_heap = <<>>
    /\ h_held = 0
    /\ h_last = NoStoreCall

ExtraIdle == FilterIdle /\ ConcurrentIdle /\ CliIdle /\ HeapIdle

\* the conversation: the session store and the orchestrator
Init == SessionInit /\ RerankIdle /\ RetrieveIdle /\ FollowupIdle /\ ExtraIdle

Next ==
    \/ \E u \in Users, t \in Utterances :
          \E out \in TurnOutcomes(u) : \E svc \in FollowupCalls(u, out) :
             HandleUserQuery(u, t, out, svc) /\ UNCHANGED <<extracted, calls>>
    \/ \E u \in Users : GetSession(u) /\ UNCHANGED <<extracted, calls>>
    \/ \E u \in Users, r \in {"user", "assistant"}, m \in Messages :
          AppendChatHistory(u, r, m) /\ UNCHANGED <<extracted, calls>>
    \/ \E u \in Users : ResetSession(u) /\ UNCHANGED <<extracted, calls>>

Spec == Init /\ [][Next]_vars

\* the record of a call: the operation, its arguments, and for a turn what
\* parse_intent returned and how the follow-up chain behaved ("not invoked"
\* when the turn did not invoke it)
Call(op, user_id, role, message, ext, asked, raised) ==
    [op |-> op, user_id |-> user_id, role |-> role, message |-> message,
     extracted |-> ext, asked |-> asked, raised |-> raised]

TurnCall(user_id, user_input, out, svc) ==
    Call("handle_user_query", user_id, "user", user_input, parse_intent(out),
         IF TurnAsks(user_id, out) THEN svc ELSE "not invoked",
         parse_intent_call(out).raised)

\* the conversation with the history variables: each turn records the intent
\* that parse_intent returned and the behaviour of the follow-up chain
NextTurns ==
    \/ \E u \in Users, t \in Utterances, out \in ParseOutcomes :
          \E svc \in FollowupCalls(u, out) :
             /\ Len(trace[u]) < MaxRecordedTurns
             /\ HandleUserQuery(u, t, out, svc)
             /\ extracted' = parse_intent(out)
             /\ calls' = <<TurnCall(u, t, out, svc)>>
    \/ \E u \in Users : GetSession(u) /\ UNCHANGED <<extracted, calls>>
    \/ \E u \in Users : ResetSession(u) /\ extracted' = EmptyDict /\ calls' = <<>>

SpecTurns == Init /\ [][NextTurns]_vars

\* the calls of several users, each recorded in calls: the operations of the
\* store and the turns, on a few behaviours of the extraction chain
MaxCalls == 3

CallAnswers ==
    { [role |-> "analyst", location |-> None, salary |-> None, domain |-> None, remote |-> None],
      [role |-> "engineer", location |-> None, salary |-> EMPTY, domain |-> "fintech", remote |-> None],
      [role |-> "analyst", location |-> "NYC", salary |-> "100k", domain |-> None, remote |-> None] }

CallOutcomes ==
    {[kind |-> "raise", val |-> EmptyDict]} \cup {[kind |-> "dict", val |-> d] : d \in CallAnswers}

CallFollowups == {"raise", " Which city? "}

StoreCall(op, user_id, role, message, raised) ==
    Call(op, user_id, role, message, EmptyDict, "not invoked", raised)

NextCalls ==
    \/ \E u \in AllUsers, t \in Utterances, out \in CallOutcomes :
          \E svc \in FollowupCalls(u, out) \cap CallFollowups :
             /\ Len(calls) < MaxCalls
             /\ HandleUserQuery(u, t, out, svc)
             /\ extracted' = parse_intent(out)
             /\ calls' = Append(calls, TurnCall(u, t, out, svc))
    \/ \E u \in AllUsers :
          /\ Len(calls) < MaxCalls
          /\ GetSession(u)
          /\ calls' = Append(calls, StoreCall("get_session", u, "", "", FALSE))
          /\ UNCHANGED extracted
    \/ \E u \in AllUsers, r \in {"user", "assistant"}, m \in Messages :
          /\ Len(calls) < MaxCalls
          /\ AppendChatHistory(u, r, m)
          /\ calls' = Append(calls, StoreCall("append_chat_history", u, r, m, FALSE))
          /\ UNCHANGED extracted
    \/ \E u \in AllUsers :
          /\ Len(calls) < MaxCalls
          /\ ResetSession(u)
          /\ calls' = Append(calls, StoreCall("reset_session", u, "", "",
                                               reset_session_raises(user_sessions, u)))
          /\ UNCHANGED extracted

SpecCalls == Init /\ [][NextCalls]_vars

\* one parse_intent call on any behaviour of the extraction chain
ParseIntent ==
    /\ pi_ret = NotCalled
    /\ pi_ret' = parse_intent_call(pi_in)
    /\ UNCHANGED <<user_sessions, result, trace, extracted, calls, pi_in, rvars, qvars, fvars, xvars>>

InitParse ==
    /\ user_sessions = EmptyDict
    /\ extracted = EmptyDict
    /\ calls = <<>>
    /\ result = NoResult
    /\ trace = [u \in AllUsers |-> <<>>]
    /\ pi_in \in ChainOutcomes
    /\ pi_ret = NotCalled
    /\ RerankIdle /\ RetrieveIdle /\ FollowupIdle /\ ExtraIdle

NextParse == ParseIntent

SpecParse == InitParse /\ [][NextParse]_vars

\* one rerank call on any candidate list and any behaviour of the service
InitRerank ==
    /\ SessionInit /\ RetrieveIdle /\ FollowupIdle /\ ExtraIdle
    /\ rr_jobs \in {Jobs(n) : n \in JobCounts}
    /\ rr_resp \in Responses
    /\ rr_call = "none"
    /\ rr_out = NoOut

NextRerank == RerankJobsChain \/ RerankJobsRanker \/ RerankWithLLM

SpecRerank == InitRerank /\ [][NextRerank]_vars

\* one retrieve_jobs call on any index content and any limit
InitRetrieve ==
    /\ SessionInit /\ RerankIdle /\ FollowupIdle /\ ExtraIdle
    /\ ix_hits \in HitLists
    /\ rt_limit \in 0..MaxLimit
    /\ rt_call = "none"
    /\ rt_found = <<>>
    /\ rt_out = NoOut

NextRetrieve ==
    \/ \E resp \in RetrieveResponses : RetrieveJobsFinal(resp)
    \/ RetrieveJobsRetriever

SpecRetrieve == InitRetrieve /\ [][NextRetrieve]_vars

\* one call of each function of the follow-up generator on any intent with
\* the five keys and any behaviour of the follow-up chain
AskFollowup ==
    /\ ~fq_ret.called
    /\ fq_ret' = [called |-> TRUE,
                  missing |-> get_missing_fields(fq_intent),
                  critical |-> is_critical_missing(fq_intent),
                  invoked |-> followup_invoked(fq_intent),
                  question |-> get_followup_question(fq_intent, fq_svc)]
    /\ UNCHANGED <<fq_intent, fq_svc, svars, rvars, qvars, xvars>>

InitFollowup ==
    /\ SessionInit /\ RerankIdle /\ RetrieveIdle /\ ExtraIdle
    /\ fq_intent \in FullAnswers
    /\ fq_svc \in FollowupOutcomes
    /\ fq_ret = NotAsked

NextFollowup == AskFollowup

SpecFollowup == InitFollowup /\ [][NextFollowup]_vars

\* one filter_by_location call on any candidate list and any target
InitFilter ==
    /\ SessionInit /\ RerankIdle /\ RetrieveIdle /\ FollowupIdle
    /\ ConcurrentIdle /\ CliIdle /\ HeapIdle
    /\ fl_jobs \in FilterJobLists
    /\ fl_target \in FilterTargets
    /\ fl_ret = NotFiltered

NextFilter == FilterByLocation

SpecFilter == InitFilter /\ [][NextFilter]_vars

\* two concurrent handle_user_query calls of one user, on a store that is
\* empty or holds the user's session, for any extraction results
InitThreads ==
    /\ SessionInit /\ RerankIdle /\ RetrieveIdle /\ FollowupIdle
    /\ FilterIdle /\ CliIdle /\ HeapIdle
    /\ c_in \in [store : ThreadStores, call : ThreadCalls]
    /\ c_sessions = RefsOf(c_in.store)
    /\ c_heap = HeapOf(c_in.store)
    /\ c_pc = [t \in Threads |-> "start"]
    /\ c_loc = [t \in Threads |-> NoLocals]

NextThreads ==
    \E t \in Threads :
        \/ CallGetSession(t)
        \/ GsCheck(t)
        \/ GsCreate(t)
        \/ GsReturn(t)
        \/ AppendUser(t)
        \/ MergeItem(t)
        \/ CheckMissing(t)
        \/ AttemptsLoad(t)
        \/ AttemptsStore(t)
        \/ CompareAttempts(t)
        \/ AskThread(t)
        \/ AppendAssistant(t)
        \/ OptionalThread(t)

SpecThreads == InitThreads /\ [][NextThreads]_vars

\* one handle_user_query call of a user in one thread and one reset_session
\* call for the same user in the other
InitReset ==
    /\ SessionInit /\ RerankIdle /\ RetrieveIdle /\ FollowupIdle
    /\ FilterIdle /\ CliIdle /\ HeapIdle
    /\ c_in \in [store : ThreadStores, call : ThreadCalls]
    /\ c_sessions = RefsOf(c_in.store)
    /\ c_heap = HeapOf(c_in.store)
    /\ \E h \in Threads : c_pc = [t \in Threads |-> IF t = h THEN "start" ELSE "reset"]
    /\ c_loc = [t \in Threads |-> NoLocals]

NextReset ==
    \/ NextThreads
    \/ \E t \in Threads : ResetStep(t)

SpecReset == InitReset /\ [][NextReset]_vars


NextLog ==
    \/ \E u \in Users :
          \E out \in TurnOutcomes(u) : \E svc \in FollowupCalls(u, out) :
             /\ HandleUserQuery(u, UtteranceAt(Len(trace[u]) + 1), out, svc)
             /\ UNCHANGED <<extracted, calls>>
    \/ \E u \in Users : ResetSession(u) /\ UNCHANGED <<extracted, calls>>

SpecLog == Init /\ [][NextLog]_vars

\* one run of a front-end script, for any sequence of extraction results
InitCli ==
    /\ SessionInit /\ RerankIdle /\ RetrieveIdle /\ FollowupIdle
    /\ FilterIdle /\ ConcurrentIdle /\ HeapIdle
    /\ cli_script \in Scripts
    /\ cli_pc = IF cli_script = "main" THEN "query" ELSE "read"
    /\ cli_intent = AllNone
    /\ cli_attempt = 0
    /\ cli_reads = 0

NextCli ==
    \E out \in ParseOutcomes :
        \/ ReadCli(out)
        \/ ReadMainQuery(out)
        \/ ReadMainReply(out)

SpecCli == InitCli /\ [][NextCli]_vars

\* run_cli_assistant and a conversation of handle_user_query calls on a
\* fresh session, fed the same extraction results
InitBoth ==
    /\ pi_in = [kind |-> "raise", val |-> EmptyDict]
    /\ pi_ret = NotCalled
    /\ extracted = EmptyDict
    /\ calls = <<>>
    /\ result = NoResult
    /\ trace = [u \in AllUsers |-> <<>>]
    /\ user_sessions = get_session(EmptyDict, ThreadUser)
    /\ RerankIdle /\ RetrieveIdle /\ FollowupIdle
    /\ FilterIdle /\ ConcurrentIdle /\ HeapIdle
    /\ cli_script = "run_cli_assistant"
    /\ cli_pc = "read"
    /\ cli_intent = AllNone
    /\ cli_attempt = 0
    /\ cli_reads = 0

NextBoth == \E out \in ParseOutcomes, svc \in FollowupOutcomes : ReadBoth(out, svc)

SpecBoth == InitBoth /\ [][NextBoth]_vars

\* the store and its objects under get_session, reset_session and the
\* writes of a caller that kept a session
NextHeap ==
    \/ \E u \in AllUsers, keep \in BOOLEAN : HeapGetSession(u, keep)
    \/ \E u \in AllUsers : HeapResetSession(u)
    \/ \E k \in {"role", "salary"} : HeapWriteIntent(k, IF k = "role" THEN "analyst" ELSE "100k")
    \/ \E m \in Messages : HeapCountAndLog(m)

SpecHeap == Init /\ [][NextHeap]_vars
(***************************************************************************)
(* Properties of the conversation                                          *)
(***************************************************************************)
\* the intent a user's session holds; a user without a session has the
\* intent of a new session
IntentOf(store, u) == IF u \in DOMAIN store THEN store[u].intent ELSE AllNone

Turn(u) == Len(trace'[u]) = Len(trace[u]) + 1
TypeAt(u, i) == trace[u][i].type

\* C1: across handle_user_query calls with no reset in between, a known field
\* of the session intent never becomes unknown again; on each turn every
\* field whose extracted value is unknown (None or empty) keeps its value and
\* every other field takes the extracted value.
C1_MergeStep(u) ==
    \A f \in Fields :
        LET old == IntentOf(user_sessions, u)[f]
            ext == Get(extracted', f)
            new == Get(IntentOf(user_sessions', u), f)
        IN /\ Unknown(ext) => new = old
           /\ ~Unknown(ext) => new = ext
           /\ ~Unknown(old) => ~Unknown(new)

C1_MergeMonotonic ==
    [][\A u \in Users : Turn(u) => C1_MergeStep(u)]_vars

\* a second turn whose extraction has no location and an empty salary has
\* left the location and the salary of the first turn in the session
C1_Witness ==
    /\ Len(trace["default_user"]) = 2
    /\ extracted = [role |-> "engineer", location |-> None, salary |-> EMPTY,
                    domain |-> None, remote |-> None]
    /\ user_sessions["default_user"].intent =
          [role |-> "engineer", location |-> "NYC", salary |-> "100k",
           domain |-> None, remote |-> None]

\* C2: from a fresh session the conversation returns 'error' if and only if
\* a required field is still unknown after the merge of the third utterance,
\* and the first 'error' is returned on the third turn.
C2_FailedIffMissingAfterThird ==
    \A u \in Users :
        /\ \A i \in 1..Len(trace[u]) : TypeAt(u, i) = "error" => i >= 3
        /\ Len(trace[u]) >= 3 =>
              /\ TypeAt(u, 3) = "error" <=> trace[u][3].miss
              /\ (\E i \in 1..Len(trace[u]) : TypeAt(u, i) = "error") <=> trace[u][3].miss

C2_Witness ==
    \E u \in Users :
        /\ Len(trace[u]) = 3
        /\ TypeAt(u, 3) = "error"
        /\ result.intent["role"] = "analyst"
        /\ result.intent["salary"] = None

\* C3: from a fresh session, the first turn among the first three after whose
\* merge role, location and salary are all known returns 'intent_complete',
\* whatever the optional fields hold.
C3_CompleteWhenRequiredKnown ==
    \A u \in Users :
        \A i \in 1..Len(trace[u]) :
            (i <= 3 /\ ~trace[u][i].miss /\ \A j \in 1..(i - 1) : trace[u][j].miss)
                => TypeAt(u, i) = "intent_complete"

C3_Witness ==
    \E u \in Users :
        /\ Len(trace[u]) = 2
        /\ trace[u][1].miss
        /\ ~trace[u][2].miss
        /\ result.type = "intent_complete"
        /\ result.intent["domain"] = None
        /\ result.intent["remote"] = None

\* C4: once handle_user_query has returned 'error' for a user, every later
\* call for that user before reset_session also returns 'error'.
C4_FailedTerminal ==
    \A u \in Users :
        \A i \in 1..Len(trace[u]) : \A j \in i..Len(trace[u]) :
            TypeAt(u, i) = "error" => TypeAt(u, j) = "error"

\* C5: once handle_user_query has returned 'intent_complete' for a user,
\* every later call before reset_session returns 'intent_complete' and the
\* attempt counter never changes again.
HasCompleted(u) == \E i \in 1..Len(trace[u]) : TypeAt(u, i) = "intent_complete"

C5_CompleteTerminal ==
    [][\A u \in Users :
          (HasCompleted(u) /\ u \in DOMAIN user_sessions') =>
              /\ user_sessions'[u].attempts = user_sessions[u].attempts
              /\ Turn(u) => result'.type = "intent_complete"]_vars

C5_Witness ==
    \E u \in Users :
        /\ Len(trace[u]) = 4
        /\ TypeAt(u, 2) = "followup_required"
        /\ TypeAt(u, 3) = "intent_complete"
        /\ TypeAt(u, 4) = "intent_complete"
        /\ user_sessions[u].attempts = 2

\* C6: every stored session's intent has exactly the five keys role,
\* location, salary, domain, remote.
C6_FiveKeys ==
    \A u \in DOMAIN user_sessions : DOMAIN user_sessions[u].intent = Fields

C6_Witness ==
    \E u \in DOMAIN user_sessions :
        /\ Len(trace[u]) >= 1
        /\ user_sessions[u].intent["role"] = "analyst"
        /\ user_sessions[u].intent["salary"] = "100k"
        /\ user_sessions[u].intent["location"] = None
        /\ user_sessions[u].intent["remote"] = None

\* the turns since the session was created or reset after whose merge a
\* required field was still unknown
MissTurns(u) == {i \in 1..Len(trace[u]) : trace[u][i].miss}

\* C17: the attempt counter of a session is 0 when the session is created
\* and always equals the number of turns since the session was created or
\* reset after whose merge a required field was still unknown (a turn that
\* supplied a new value but left another required field unknown counts).
C17_AttemptsCountMissTurns ==
    \A u \in Users :
        /\ u \in DOMAIN user_sessions =>
              user_sessions[u].attempts = Cardinality(MissTurns(u))
        /\ u \notin DOMAIN user_sessions => trace[u] = <<>>

\* two turns that supplied the role and the location and were both counted,
\* and a third one that completed the intent and was not
C17_Witness ==
    \E u \in Users :
        /\ Len(trace[u]) = 3
        /\ MissTurns(u) = {1, 2}
        /\ user_sessions[u].attempts = 2
        /\ user_sessions[u].intent["role"] = "analyst"
        /\ user_sessions[u].intent["location"] = "NYC"
        /\ result.type = "intent_complete"

\* C18: the attempt counter never exceeds the attempt ceiling.
C18_AttemptsBounded ==
    \A u \in DOMAIN user_sessions : user_sessions[u].attempts <= 3

(***************************************************************************)
(* Properties of the extractor                                             *)
(***************************************************************************)
\* C7: parse_intent never raises and returns an intent with exactly the five
\* keys for every behaviour of the completion service; when the service call
\* or the parsing fails it returns the intent with all five fields None.
C7_ParseTotal ==
    pi_ret # NotCalled =>
        /\ ~pi_ret.raised
        /\ DOMAIN pi_ret.value = Fields
        /\ pi_in.kind # "dict" => pi_ret.value = [f \in Fields |-> None]

C7_Witness ==
    /\ pi_ret # NotCalled
    /\ pi_in.kind = "malformed"

(***************************************************************************)
(* Properties of the re-rankers                                            *)
(***************************************************************************)
\* C8: rerank never raises and always returns a sequence of at most top_n
\* (10) items, for every candidate list and every behaviour of the
\* completion service.
C8_RerankTotalBounded ==
    rr_call # "none" =>
        /\ ~rr_out.raised
        /\ rr_out.list
        /\ Len(rr_out.value) <= TOP_N

\* C9: on a response of empty text rerank returns the first min(n, top_n)
\* candidates in their incoming order, the k-th annotated with final_rank k
\* and a selection_reason that mentions its similarity score, every other
\* field unchanged.
MentionsScore(reason, job) ==
    \E i \in 1..Len(reason.args) : reason.args[i] = job.similarity_score

C9_FallbackOnEmptyText ==
    (rr_call \in {"response_chain", "job_ranker"} /\ rr_resp.kind = "text" /\ IsEmptyText(rr_resp)) =>
        /\ ~rr_out.raised
        /\ rr_out.list
        /\ Len(rr_out.value) = (IF Len(rr_jobs) < TOP_N THEN Len(rr_jobs) ELSE TOP_N)
        /\ \A k \in 1..Len(rr_out.value) :
              /\ DOMAIN rr_out.value[k] = DOMAIN rr_jobs[k] \cup {"final_rank", "selection_reason"}
              /\ rr_out.value[k]["final_rank"] = k
              /\ MentionsScore(rr_out.value[k]["selection_reason"], rr_jobs[k])
              /\ \A key \in DOMAIN rr_jobs[k] : rr_out.value[k][key] = rr_jobs[k][key]

\* the fallback ranking of the candidates `jobs`: the first top_n of them in
\* their order, the k-th with final_rank k and a reason that mentions its
\* similarity score
IsFallbackRanking(out, jobs) ==
    /\ ~out.raised
    /\ out.list
    /\ Len(out.value) = (IF Len(jobs) < TOP_N THEN Len(jobs) ELSE TOP_N)
    /\ \A k \in 1..Len(out.value) :
          /\ DOMAIN out.value[k] = DOMAIN jobs[k] \cup {"final_rank", "selection_reason"}
          /\ out.value[k]["final_rank"] = k
          /\ MentionsScore(out.value[k]["selection_reason"], jobs[k])
          /\ \A key \in DOMAIN jobs[k] : out.value[k][key] = jobs[k][key]

\* the completion service raises, or its text lacks a '[' or a ']', or what
\* it holds does not parse to an array
ServiceFailure(resp) ==
    \/ resp.kind = "raise"
    \/ ~HasOpen(resp)
    \/ ~HasClose(resp)
    \/ resp.payload # "array"

\* C23: whenever the completion service raises, or its response lacks a '['
\* or a ']', or the array does not parse, or the parsed value is not a
\* sequence, rerank_jobs of response_chain and rerank_with_llm return the
\* fallback ranking, not an empty or partial result.
C23_FallbackOnFailure ==
    (rr_call \in {"response_chain", "job_response_final"} /\ ServiceFailure(rr_resp)) =>
        IsFallbackRanking(rr_out, rr_jobs)

\* the n-th smallest member of a set of positions
NthPosition(S, n) == CHOOSE i \in S : Cardinality({j \in S : j <= i}) = n

\* the candidates that rerank considers
Considered == Prefix(rr_jobs, MAX_RERANK_INPUT)

\* item is a copy of job that carries the rank and the reason
CopyWith(item, job, rank, reason) ==
    /\ DOMAIN item = DOMAIN job \cup {"final_rank", "selection_reason"}
    /\ \A key \in DOMAIN job : item[key] = job[key]
    /\ item["final_rank"] = rank
    /\ item["selection_reason"] = reason

\* entry i of the response resolves to candidate j.  Index scheme: j is its
\* job_number.  Text scheme: j is the first candidate whose title and
\* company match the entry's.
Resolves(i, j) ==
    LET e == rr_resp.items[i]
    IN  /\ e.t = "dict"
        /\ j \in 1..Len(Considered)
        /\ IF rr_call = "job_ranker"
           THEN "job_number" \in e.keys \ e.nulls /\ e.job_number = j
           ELSE /\ Matches(e, Considered[j])
                /\ \A k \in 1..(j - 1) : ~Matches(e, Considered[k])

\* the rank the response declares for entry i: its rank field in the index
\* scheme, its position in the array in the text scheme, whose format has
\* no rank field
DeclaredRank(i) == IF rr_call = "job_ranker" THEN rr_resp.items[i].rank ELSE i

\* entry i, resolving to candidate j, is in the result with its rank and reason
EntryKept(i, j) ==
    \E k \in 1..Len(rr_out.value) :
        CopyWith(rr_out.value[k], Considered[j], DeclaredRank(i), rr_resp.items[i].reason)

DeclaresReason(i) == "reason" \in rr_resp.items[i].keys \ rr_resp.items[i].nulls

ArrayResponse ==
    /\ rr_call \in {"response_chain", "job_ranker"}
    /\ rr_resp.kind = "text" /\ rr_resp.payload = "array"

\* C24 as stated: every entry of the response that resolves to a candidate
\* is in the result as a copy of the candidate with the declared rank and
\* reason.
C24_EveryResolvedEntryKept ==
    ArrayResponse =>
        /\ ~rr_out.raised /\ rr_out.list
        /\ \A i \in 1..Len(rr_resp.items) : \A j \in 1..Len(Considered) :
              (Resolves(i, j) /\ DeclaresReason(i)) => EntryKept(i, j)

\* the response is processed entry by entry: it is read as an array and no
\* entry makes the loop raise
Processed ==
    /\ ArrayResponse
    /\ IF rr_call = "job_ranker"
       THEN /\ rr_resp.fence = "none" /\ ~rr_resp.prose
            /\ \A i \in 1..Len(rr_resp.items) : ~RankerEntryRaises(rr_resp.items[i], Considered)
       ELSE \A i \in 1..Len(Prefix(rr_resp.items, TOP_N)) : ~EntryRaises(rr_resp.items[i])

\* C24 (amended): when the response is processed without falling back,
\* every entry among its first top_n that resolves to a candidate is in the
\* result as a copy of the candidate with the declared rank and reason.
C24_ResolvedEntryKept ==
    Processed =>
        /\ ~rr_out.raised /\ rr_out.list
        /\ \A i \in 1..Len(Prefix(rr_resp.items, TOP_N)) : \A j \in 1..Len(Considered) :
              (Resolves(i, j) /\ DeclaresReason(i)) => EntryKept(i, j)

\* the index scheme skips a first entry and gives the second candidate the
\* rank 1 and the reason of the second entry
C24_Witness ==
    /\ rr_call = "job_ranker"
    /\ Processed
    /\ rr_resp.items = <<IndexEntry(2, 0), IndexEntry(1, 2)>>
    /\ Len(rr_jobs) = 3
    /\ Len(rr_out.value) = 1
    /\ CopyWith(rr_out.value[1], rr_jobs[2], 1, Text("Perfect role match"))

\* a response of the index scheme: an array, alone in the text, of records
\* that each declare rank, job_number and reason
IndexResponse ==
    /\ rr_call = "job_ranker"
    /\ rr_resp.kind = "text" /\ rr_resp.payload = "array"
    /\ rr_resp.fence = "none" /\ ~rr_resp.prose
    /\ \A i \in 1..Len(rr_resp.items) :
          /\ rr_resp.items[i].t = "dict"
          /\ {"rank", "job_number", "reason"} \subseteq rr_resp.items[i].keys \ rr_resp.items[i].nulls

\* the positions of the entries whose job_number is in 1..len(candidates)
InRangeEntries ==
    {i \in 1..Len(rr_resp.items) : rr_resp.items[i].job_number \in 1..Len(Considered)}

\* C25: in the index scheme an entry whose job_number is outside
\* 1..len(candidates) contributes nothing, and the other entries, in their
\* order, each give the candidate at position job_number of the truncated
\* input with the entry's rank and reason (the first top_n of them).
C25_IndexSkipsOutOfRange ==
    IndexResponse =>
        /\ ~rr_out.raised /\ rr_out.list
        /\ Len(rr_out.value) = (IF Cardinality(InRangeEntries) < TOP_N
                                THEN Cardinality(InRangeEntries) ELSE TOP_N)
        /\ \A n \in 1..Len(rr_out.value) :
              LET e == rr_resp.items[NthPosition(InRangeEntries, n)]
              IN CopyWith(rr_out.value[n], Considered[e.job_number], e.rank, e.reason)

\* job numbers -1, 0 and 31 are skipped, 2 is kept, with three candidates
C25_Witness ==
    /\ IndexResponse
    /\ Len(rr_jobs) = 3
    /\ Len(rr_resp.items) = 5
    /\ rr_resp.items[1].job_number = -1
    /\ rr_resp.items[2].job_number = 0
    /\ rr_resp.items[4].job_number = MAX_RERANK_INPUT + 1
    /\ Len(rr_out.value) = 1
    /\ CopyWith(rr_out.value[1], rr_jobs[2], 3, Text("Perfect role match"))

\* a response of the text-matching scheme that is read as an array, none
\* of whose first top_n records has a null title or company
TextResponseRead ==
    /\ rr_call = "response_chain"
    /\ rr_resp.kind = "text" /\ rr_resp.payload = "array"
    /\ \A i \in 1..Len(Prefix(rr_resp.items, TOP_N)) :
          rr_resp.items[i].t = "dict" =>
              {"title", "company"} \cap rr_resp.items[i].nulls = {}

\* the positions of the records among the first top_n entries
RecordEntries ==
    {i \in 1..Len(Prefix(rr_resp.items, TOP_N)) : rr_resp.items[i].t = "dict"}

MatchesNone(e) == \A j \in 1..Len(Considered) : ~Matches(e, Considered[j])

\* item is the placeholder of entry e at position i: the declared title,
\* company, location and reason, a zero similarity score, and nothing of an
\* original candidate; its rank is i and its id is made from i
IsPlaceholder(item, e, i) ==
    /\ DOMAIN item = {"final_rank", "job_id", "title", "company", "location",
                      "similarity_score", "selection_reason"}
    /\ item.title = EntryText(e, "title")
    /\ item.company = EntryText(e, "company")
    /\ "location" \in e.keys => item.location = e.location
    /\ "reason" \in e.keys => item.selection_reason = e.reason
    /\ item.similarity_score = 0
    /\ item.final_rank = i
    /\ item.job_id = <<"ranked_", i>>
    /\ \A j \in 1..Len(rr_jobs) : item.job_id # rr_jobs[j].job_id

Beyond == {j \in 1..Len(rr_jobs) : j > MAX_RERANK_INPUT}

\* C27: rerank_jobs considers at most the first 30 candidates: no candidate
\* at input position 31 or later is in the result, matched or fallback, and
\* in the index scheme every item of the result comes from an entry whose
\* job_number is at most 30.
C27_FirstThirtyOnly ==
    (rr_call \in {"response_chain", "job_ranker"} /\ rr_out.list) =>
        /\ \A k \in 1..Len(rr_out.value) : \A j \in Beyond :
              rr_out.value[k].job_id # rr_jobs[j].job_id
        /\ IndexResponse =>
              \A k \in 1..Len(rr_out.value) :
                 \E i \in 1..Len(rr_resp.items) :
                    /\ rr_resp.items[i].job_number \in 1..MAX_RERANK_INPUT
                    /\ rr_resp.items[i].job_number \in 1..Len(rr_jobs)
                    /\ rr_out.value[k].job_id = rr_jobs[rr_resp.items[i].job_number].job_id

\* 31 candidates and a response that names the numbers 2, 31 and 30: the
\* result is the candidates 2 and 30
C27_Witness ==
    /\ rr_call = "job_ranker"
    /\ IndexResponse
    /\ Len(rr_jobs) = MAX_RERANK_INPUT + 1
    /\ \E i \in 1..Len(rr_resp.items) : rr_resp.items[i].job_number = MAX_RERANK_INPUT + 1
    /\ Len(rr_out.value) = 2
    /\ rr_out.value[1].job_id = rr_jobs[2].job_id
    /\ rr_out.value[2].job_id = rr_jobs[MAX_RERANK_INPUT].job_id

(***************************************************************************)
(* Properties of the retrievers                                            *)
(***************************************************************************)
\* C10: the candidate list of retrieve_jobs before re-ranking never has more
\* than top_k candidates and never has two candidates with the same
\* (title, company, location).
C10_SearchBoundedDistinct ==
    rt_call # "none" =>
        /\ Len(rt_found) <= rt_limit
        /\ \A i, j \in 1..Len(rt_found) :
              i # j => <<rt_found[i].title, rt_found[i].company, rt_found[i].location>>
                       # <<rt_found[j].title, rt_found[j].company, rt_found[j].location>>

\* the raw hits the index returns when asked for 2 * limit of them
RawHits == similarity_search_with_score(ix_hits, 2 * rt_limit)
\* the positions of the hits that are the first with their key
FirstOccurrences ==
    {i \in 1..Len(RawHits) :
        \A j \in 1..(i - 1) : Key(RawHits[j].doc) # Key(RawHits[i].doc)}
\* the c-th smallest position among them
NthFirst(c) ==
    CHOOSE i \in FirstOccurrences :
        Cardinality({j \in FirstOccurrences : j < i}) = c - 1

\* C11: the candidate list that job_response_final's retrieve_jobs hands to
\* the re-ranker is the first limit elements of the first-occurrence
\* deduplication, by (title, company, location), of the 2 * limit raw hits:
\* its length is min(limit, number of distinct keys), its c-th candidate is
\* built from the c-th hit that is the first with its key, and nothing else
\* is in it.
C11_DedupFirstOccurrences ==
    rt_call = "job_response_final" =>
        /\ Len(rt_found) = (IF rt_limit < Cardinality(FirstOccurrences)
                            THEN rt_limit ELSE Cardinality(FirstOccurrences))
        /\ Cardinality(FirstOccurrences) = Cardinality({Key(RawHits[i].doc) : i \in 1..Len(RawHits)})
        /\ \A c \in 1..Len(rt_found) :
              LET hit == RawHits[NthFirst(c)]
              IN rt_found[c] =
                    [title |-> hit.doc.title, company |-> hit.doc.company,
                     location |-> hit.doc.location,
                     short_description |-> hit.doc.page_content,
                     similarity_score |-> hit.score]

\* limit 2 on hits whose two best share their key: the second candidate is
\* the third hit, which a request for only limit hits would not have seen
C11_Witness ==
    /\ rt_call = "job_response_final"
    /\ rt_limit = 2
    /\ Len(ix_hits) = 4
    /\ Key(ix_hits[1]) = Key(ix_hits[2])
    /\ Key(ix_hits[3]) # Key(ix_hits[1])
    /\ Len(rt_found) = 2
    /\ rt_found[2].similarity_score = 3

(***************************************************************************)
(* Properties of single turns (SpecTurns: calls holds the record of the    *)
(* last turn)                                                              *)
(***************************************************************************)
\* the follow-up a turn returns for the recorded behaviour of the chain
AskedText(asked) ==
    CASE asked = "  " -> EMPTY
      [] asked = " Which city? " -> "Which city?"
      [] OTHER -> None

\* the last call was the first turn of a fresh session and its extraction
\* gave a role but neither a location nor a salary
FirstTurnRoleOnly(u) ==
    /\ Len(trace[u]) = 1
    /\ Len(calls) = 1
    /\ ~Unknown(calls[1].extracted["role"])
    /\ Unknown(calls[1].extracted["location"])
    /\ Unknown(calls[1].extracted["salary"])

\* C12 (as stated): in a fresh session, a first utterance whose extraction
\* yields a role but neither location nor salary returns 'followup_required'
\* with the attempt counter at 1 and a follow-up question that is not None.
C12_FirstTurnQuestionPresent ==
    \A u \in Users :
        FirstTurnRoleOnly(u) =>
            /\ result.type = "followup_required"
            /\ user_sessions[u].attempts = 1
            /\ result.followup # None

\* C12 (amended): such a turn returns 'followup_required' with the attempt
\* counter at 1; the follow-up is the stripped text of the follow-up service,
\* and it is None exactly when that service failed.
C12_FirstTurnAsks ==
    \A u \in Users :
        FirstTurnRoleOnly(u) =>
            /\ result.type = "followup_required"
            /\ user_sessions[u].attempts = 1
            /\ calls[1].asked # "not invoked"
            /\ result.followup = AskedText(calls[1].asked)
            /\ result.followup = None <=> calls[1].asked = "raise"

C12_Witness ==
    /\ FirstTurnRoleOnly("default_user")
    /\ calls[1].extracted["role"] = "analyst"
    /\ calls[1].extracted["salary"] = EMPTY
    /\ calls[1].asked = " Which city? "
    /\ result.followup = "Which city?"

\* the attempt counter and the log of a user; those of a new session for a
\* user without one
AttemptsOf(store, u) == IF u \in DOMAIN store THEN store[u].attempts ELSE 0
LogOf(store, u) == IF u \in DOMAIN store THEN store[u].chat_history ELSE <<>>
OptionalUnknown(intent) == intent["domain"] = None \/ intent["remote"] = None

\* C14: a turn after whose merge role, location and salary are known returns
\* 'intent_complete', leaves the attempt counter unchanged and appends only
\* the user's utterance to the log; with an optional field unknown the
\* follow-up chain is invoked and its outcome attached as followup, message
\* is non-None exactly when followup is a non-empty question, and with all
\* five fields known followup and message are None.
C14_CompleteStep(u) ==
    LET intent == IntentOf(user_sessions', u)
    IN /\ result'.type = "intent_complete"
       /\ result'.intent = intent
       /\ AttemptsOf(user_sessions', u) = AttemptsOf(user_sessions, u)
       /\ LogOf(user_sessions', u) =
             Append(LogOf(user_sessions, u),
                    [role |-> "user", message |-> calls'[1].message])
       /\ result'.followup = AskedText(calls'[1].asked)
       /\ result'.message # None <=> result'.followup \notin {None, EMPTY}
       /\ OptionalUnknown(intent) => calls'[1].asked # "not invoked"
       /\ ~OptionalUnknown(intent) =>
             /\ calls'[1].asked = "not invoked"
             /\ result'.followup = None
             /\ result'.message = None

C14_CompleteOffersFollowup ==
    [][\A u \in Users :
          (Turn(u) /\ ~RequiredUnknown(IntentOf(user_sessions', u)))
              => C14_CompleteStep(u)]_vars

\* a complete intent without domain and remote, returned with a question
C14_Witness ==
    /\ Len(calls) = 1
    /\ result.type = "intent_complete"
    /\ result.intent["domain"] = None
    /\ calls[1].asked = " Which city? "
    /\ result.followup = "Which city?"
    /\ result.message # None
    /\ user_sessions["default_user"].attempts = 1
    /\ Len(user_sessions["default_user"].chat_history) = 3

ResultTypes == {"followup_required", "error", "intent_complete"}

\* the turn returned one of the three results, and 'error' only with the
\* attempts exhausted
C19_Returns(u) ==
    /\ ~calls'[1].raised
    /\ result'.type \in ResultTypes
    /\ result'.type = "error" =>
          /\ AttemptsOf(user_sessions', u) >= 3
          /\ RequiredUnknown(IntentOf(user_sessions', u))

C29_ErrorAgain ==
    [][\A u \in Users :
          Turn(u) =>
             /\ (AttemptsOf(user_sessions, u) >= MAX_ATTEMPTS
                    /\ RequiredUnknown(IntentOf(user_sessions', u))) =>
                   /\ result'.type = "error"
                   /\ result'.message = ErrorMessage
                   /\ result'.intent = IntentOf(user_sessions', u)
             /\ (Len(trace'[u]) = 4 /\ \A i \in 1..4 : trace'[u][i].miss) =>
                   /\ trace'[u][3].type = "error"
                   /\ trace'[u][4].type = "error"]_vars

\* four turns in a row that left the salary unknown: the third and the
\* fourth returned 'error', the fourth with the role and the location
\* collected so far
C29_Witness ==
    \E u \in Users :
        /\ Len(trace[u]) = 4
        /\ \A i \in 1..4 : trace[u][i].miss
        /\ TypeAt(u, 3) = "error"
        /\ TypeAt(u, 4) = "error"
        /\ result.type = "error"
        /\ result.message = ErrorMessage
        /\ result.intent["role"] = "analyst"
        /\ result.intent["location"] = "NYC"
        /\ result.intent["salary"] = None
        /\ user_sessions[u].attempts = 4

(***************************************************************************)
(* Properties of recorded conversations (SpecCalls: calls holds every call *)
(* since the start)                                                        *)
(***************************************************************************)
\* the position of u's last reset_session in calls, 0 when there is none
LastReset(u) ==
    LET resets == {i \in 1..Len(calls) :
                      calls[i].op = "reset_session" /\ calls[i].user_id = u}
    IN IF resets = {} THEN 0 ELSE CHOOSE i \in resets : \A j \in resets : j <= i

\* the positions of u's turns since then
TurnsOf(u) ==
    {i \in (LastReset(u) + 1)..Len(calls) :
        calls[i].op = "handle_user_query" /\ calls[i].user_id = u}

FirstTurn(u) == CHOOSE i \in TurnsOf(u) : \A j \in TurnsOf(u) : i <= j

\* the last known value that u's turns extracted for f, None without one
LastKnown(u, f) ==
    LET known == {i \in TurnsOf(u) : ~Unknown(calls[i].extracted[f])}
    IN IF known = {} THEN None
       ELSE calls[CHOOSE i \in known : \A j \in known : j <= i].extracted[f]

\* the last call is the third turn of u's conversation, turn 1 extracted a
\* role and no turn extracted a location or a salary
ThreeTurnsWithoutLocationSalary(u) ==
    /\ Cardinality(TurnsOf(u)) = 3
    /\ Len(calls) \in TurnsOf(u)
    /\ ~Unknown(calls[FirstTurn(u)].extracted["role"])
    /\ \A i \in TurnsOf(u) :
          /\ Unknown(calls[i].extracted["location"])
          /\ Unknown(calls[i].extracted["salary"])

\* C13 (as stated): after three consecutive utterances of a fresh session
\* none of which supplies location or salary, the third result is 'error'
\* with the fixed '3 tries' message and its intent holds the role extracted
\* on turn 1.
C13_ThirdTurnKeepsFirstRole ==
    \A u \in AllUsers :
        ThreeTurnsWithoutLocationSalary(u) =>
            /\ result.type = "error"
            /\ result.message = "I'm sorry, your request is still unclear after 3 tries. Please rephrase or try again."
            /\ result.intent["role"] = calls[FirstTurn(u)].extracted["role"]

\* C13 (amended): the third result is 'error' with the fixed '3 tries'
\* message and its intent holds, for every field, the last known value that
\* the three turns extracted (None when they extracted none): the role of
\* turn 1 unless a later turn extracted another role.
C13_ThirdTurnFails ==
    \A u \in AllUsers :
        ThreeTurnsWithoutLocationSalary(u) =>
            /\ result.type = "error"
            /\ result.message = "I'm sorry, your request is still unclear after 3 tries. Please rephrase or try again."
            /\ \A f \in Fields : result.intent[f] = LastKnown(u, f)
            /\ ~Unknown(result.intent["role"])
            /\ (\A i \in TurnsOf(u) \ {FirstTurn(u)} : Unknown(calls[i].extracted["role"]))
                  => result.intent["role"] = calls[FirstTurn(u)].extracted["role"]

C13_Witness ==
    /\ ThreeTurnsWithoutLocationSalary("test_user")
    /\ calls[1].extracted["role"] = "analyst"
    /\ calls[2].extracted = AllNone
    /\ calls[3].extracted = AllNone
    /\ result.type = "error"
    /\ result.intent["role"] = "analyst"

\* the call that a step of SpecCalls records
Called == Len(calls') = Len(calls) + 1
LastCall == calls'[Len(calls')]

\* C15: get_session, reset_session and append_chat_history never raise, for
\* a user with or without a session; reset_session of a user without a
\* session leaves the store unchanged; append_chat_history for a user
\* without a session creates a session with all five fields None, attempts
\* 0 and a log that holds exactly the appended message.
C15_StoreStep ==
    LET c == LastCall
        u == c.user_id
    IN /\ c.op \in {"get_session", "reset_session", "append_chat_history"} => ~c.raised
       /\ c.op = "get_session" =>
             /\ u \in DOMAIN user_sessions'
             /\ u \in DOMAIN user_sessions => user_sessions' = user_sessions
       /\ c.op = "reset_session" =>
             /\ u \notin DOMAIN user_sessions'
             /\ u \notin DOMAIN user_sessions => user_sessions' = user_sessions
       /\ c.op = "append_chat_history" =>
             /\ u \in DOMAIN user_sessions'
             /\ u \notin DOMAIN user_sessions =>
                   user_sessions'[u] =
                      [intent |-> [role |-> None, location |-> None, salary |-> None,
                                   domain |-> None, remote |-> None],
                       attempts |-> 0,
                       chat_history |-> <<[role |-> c.role, message |-> c.message]>>]
             /\ u \in DOMAIN user_sessions =>
                   user_sessions'[u] =
                      [user_sessions[u] EXCEPT !.chat_history =
                          Append(@, [role |-> c.role, message |-> c.message])]

C15_StoreTotal == [][Called => C15_StoreStep]_vars

\* reset_session and then append_chat_history for a user without a session,
\* while another user has one
C15_Witness ==
    /\ Len(calls) = 3
    /\ calls[1].op = "handle_user_query" /\ calls[1].user_id = "default_user"
    /\ calls[2].op = "reset_session" /\ calls[2].user_id = "test_user"
    /\ calls[3].op = "append_chat_history" /\ calls[3].user_id = "test_user"
    /\ DOMAIN user_sessions = {"default_user", "test_user"}
    /\ Len(user_sessions["test_user"].chat_history) = 1
    /\ user_sessions["test_user"].attempts = 0

\* C16: a call for user u (handle_user_query, append_chat_history,
\* reset_session, get_session) neither creates, removes nor changes the
\* session of any other user: its intent, attempt counter and log stay as
\* they were, so no two users share an intent or a log.
C16_OthersUnchanged ==
    \A v \in AllUsers \ {LastCall.user_id} :
        /\ v \in DOMAIN user_sessions' <=> v \in DOMAIN user_sessions
        /\ v \in DOMAIN user_sessions =>
              /\ user_sessions'[v].intent = user_sessions[v].intent
              /\ user_sessions'[v].attempts = user_sessions[v].attempts
              /\ user_sessions'[v].chat_history = user_sessions[v].chat_history

C16_UserIsolation == [][Called => C16_OthersUnchanged]_vars

\* two users in conversation, one after the other
C16_Witness ==
    /\ Len(calls) = 3
    /\ calls[1].op = "handle_user_query" /\ calls[1].user_id = "default_user"
    /\ calls[2].op = "handle_user_query" /\ calls[2].user_id = "test_user"
    /\ calls[3].op = "handle_user_query" /\ calls[3].user_id = "default_user"
    /\ user_sessions["test_user"].attempts = 1
    /\ Len(user_sessions["test_user"].chat_history) = 2
    /\ user_sessions["test_user"].intent["role"] = "analyst"
    /\ user_sessions["default_user"].attempts = 2
    /\ user_sessions["default_user"].intent["role"] = "engineer"

KeptPositions(jobs, target) ==
    {i \in 1..Len(jobs) :
        LET loc == LowerText(JobLocation(jobs[i]))
        IN  \/ IsSubstr(LowerText(target.text), loc)
            \/ IsSubstr(<<"remote">>, loc)}

\* C21: filter_by_location with an empty or absent target returns the list
\* unchanged; otherwise it returns, in their order, exactly the candidates
\* whose location contains the target or the word "remote", both compared
\* without regard to case.
C21_LocationFilter ==
    fl_ret.called =>
        IF fl_target.none \/ fl_target.text = <<>>
        THEN fl_ret.value = fl_jobs
        ELSE LET K == KeptPositions(fl_jobs, fl_target)
             IN  /\ Len(fl_ret.value) = Cardinality(K)
                 /\ \A n \in 1..Cardinality(K) : fl_ret.value[n] = fl_jobs[NthPosition(K, n)]

\* a target in another case than the location keeps that candidate and a
\* REMOTE one, and drops a third
C21_Witness ==
    /\ fl_ret.called
    /\ fl_target = TargetText(<<"NEW", "York">>)
    /\ fl_jobs = <<Located(1, <<"New", "York">>), Located(2, <<"Boston">>),
                   Located(3, <<"REMOTE", "Boston">>)>>
    /\ fl_ret.value = <<Located(1, <<"New", "York">>), Located(3, <<"REMOTE", "Boston">>)>>

(***************************************************************************)
(* Properties of concurrent calls                                          *)
(***************************************************************************)
\* the user's session after the two calls run one after the other
SerialSession(first, second) ==
    TurnStore(TurnStore(c_in.store, ThreadUser, c_in.call[first].text,
                        c_in.call[first].out, c_in.call[first].svc),
              ThreadUser, c_in.call[second].text,
              c_in.call[second].out, c_in.call[second].svc)[ThreadUser]

BothReturned == \A t \in Threads : c_pc[t] = "done" /\ c_loc[t].result # "none"

\* C22: when two handle_user_query calls of one user have both returned,
\* the user's session (intent, attempts, log) is the one that some serial
\* order of the two calls produces.
C22_Serializable ==
    BothReturned => StoredSession \in {SerialSession(1, 2), SerialSession(2, 1)}

(***************************************************************************)
(* Properties of the front-end loops                                       *)
(***************************************************************************)
CliEnded == cli_pc \in {"complete", "failed"}

\* C28: every intent-collection loop reads at most MAX_ATTEMPTS (3)
\* utterances for one conversation, and after the third it has ended, with
\* a complete intent or with the failure message.
C28_ReadsBounded ==
    cli_script \in Scripts =>
        /\ cli_reads <= MAX_ATTEMPTS
        /\ cli_reads = MAX_ATTEMPTS => CliEnded
        /\ cli_pc = "complete" => ~is_critical_missing(cli_intent)

(***************************************************************************)
(* Properties of the message log                                           *)
(***************************************************************************)
UserEntries(log) == {p \in 1..Len(log) : log[p].role = "user"}

\* the log of u after the turns in trace[u]: one user entry per turn, with
\* the turn's utterance, followed by one assistant entry exactly when the
\* turn returned 'followup_required'
LogShape(u) ==
    LET log == LogOf(user_sessions, u)
        k == Len(trace[u])
        at(n) == IF n <= k THEN NthPosition(UserEntries(log), n) ELSE Len(log) + 1
    IN  /\ Cardinality(UserEntries(log)) = k
        /\ \A p \in 1..Len(log) : log[p].role \in {"user", "assistant"}
        /\ log # <<>> => log[1].role = "user"
        /\ \A n \in 1..k :
              /\ log[at(n)].message = UtteranceAt(n)
              /\ TypeAt(u, n) \in ResultTypes
              /\ TypeAt(u, n) = "followup_required" =>
                    /\ at(n + 1) = at(n) + 2
                    /\ log[at(n) + 1].role = "assistant"
              /\ TypeAt(u, n) \in {"error", "intent_complete"} => at(n + 1) = at(n) + 1

IsPrefixOf(a, b) == Len(a) <= Len(b) /\ \A p \in 1..Len(a) : b[p] = a[p]

\* C30: between resets the log only grows at its end; after k turns since
\* the last reset it holds exactly k 'user' entries, in utterance order, and
\* one 'assistant' entry right after the user entry of each turn that
\* returned 'followup_required', none for a turn that returned 'error' or
\* 'intent_complete'.
C30_LogShape ==
    /\ [](\A u \in Users : LogShape(u))
    /\ [][\A u \in Users :
             u \in DOMAIN user_sessions' =>
                IsPrefixOf(LogOf(user_sessions, u), LogOf(user_sessions', u))]_vars

\* two questions asked and the third turn an error: user, assistant, user,
\* assistant, user
C30_Witness ==
    \E u \in Users :
        /\ Len(trace[u]) = 3
        /\ TypeAt(u, 1) = "followup_required"
        /\ TypeAt(u, 2) = "followup_required"
        /\ TypeAt(u, 3) = "error"
        /\ Len(user_sessions[u].chat_history) = 5
        /\ user_sessions[u].chat_history[3] = [role |-> "user", message |-> "in NYC"]
        /\ user_sessions[u].chat_history[4].role = "assistant"
        /\ user_sessions[u].chat_history[5] = [role |-> "user", message |-> "around 100k"]

\* C31: every 'assistant' entry of a session's log carries the text of a
\* generated follow-up question; None is never stored as a log message.
C31_NoNoneInLog ==
    \A u \in DOMAIN user_sessions :
        \A p \in 1..Len(user_sessions[u].chat_history) :
            user_sessions[u].chat_history[p].role = "assistant" =>
                user_sessions[u].chat_history[p].message # None

\* C32: main of final_CLI_job_assistant leaves its loop and goes on to the
\* retrieval only when role, location and salary each hold a value that is
\* neither None nor the empty string.
C32_MainProceedsComplete ==
    (cli_script = "main" /\ cli_pc = "complete") =>
        \A f \in REQUIRED_FIELDS : cli_intent[f] # None /\ cli_intent[f] # EMPTY

\* C33: every field of every session intent in the store is None or a
\* non-empty value, never the empty string; so on a stored intent the
\* truthiness test of the merge and the `is None` test of
\* is_critical_missing tell the same fields absent.
C33_StoredFieldsNoneOrTruthy ==
    \A u \in DOMAIN user_sessions :
        LET intent == user_sessions[u].intent
        IN  /\ DOMAIN intent = Fields
            /\ \A f \in Fields : intent[f] # EMPTY
            /\ \A f \in Fields : Truthy(intent[f]) <=> intent[f] # None
            /\ is_critical_missing(intent) <=> \E f \in REQUIRED_FIELDS : ~Truthy(intent[f])

\* a turn whose extraction gave the empty string for the salary: the stored
\* salary is still None and the turn asked again
C33_Witness ==
    /\ "default_user" \in DOMAIN user_sessions
    /\ DOMAIN extracted = Fields
    /\ extracted["salary"] = EMPTY
    /\ extracted["role"] = "analyst"
    /\ user_sessions["default_user"].intent["role"] = "analyst"
    /\ user_sessions["default_user"].intent["salary"] = None
    /\ result.type = "followup_required"

(***************************************************************************)
(* Lifecycle of a session in the store                                     *)
(***************************************************************************)
C34_CreatedIsInitial ==
    (h_last.op = "get_session" /\ h_last.created) =>
        SessionAt(h_heap, h_last.ret) = NewSession

C34_Step ==
    /\ (h_last.op = "reset_session" /\ h_last'.op = "get_session"
            /\ h_last'.user_id = h_last.user_id) =>
           /\ SessionAt(h_heap', h_last'.ret) = NewSession
           /\ h_last'.ret \notin SessionRefs(h_heap)
           /\ \A r \in SessionRefs(h_heap) :
                  /\ h_heap'[h_last'.ret].intent # h_heap[r].intent
                  /\ h_heap'[h_last'.ret].chat_history # h_heap[r].chat_history
    /\ (h_last.op = "reset_session" /\ h_last'.op = "reset_session"
            /\ h_last'.user_id = h_last.user_id) =>
           h_store' = h_store /\ h_heap' = h_heap
    /\ (h_last'.op = "reset_session") => h_last'.user_id \notin DOMAIN h_store'
    /\ (h_last'.op = "get_session" /\ ~h_last'.created) =>
           /\ h_heap' = h_heap
           /\ h_store' = h_store
           /\ h_last'.ret = h_store[h_last'.user_id]

\* C34: reset_session(u) followed by get_session(u) yields the initial
\* session whatever was written before the reset; a second reset_session
\* changes nothing; get_session on an existing session returns the stored
\* object and changes no object; and a session created after a reset has an
\* intent dict and a log list that no earlier session refers to.
C34_ResetThenGet == []C34_CreatedIsInitial /\ [][C34_Step]_vars

\* a caller still holds the removed session, with a role, an attempt and a
\* logged message written to it, and the store holds a new, initial one
C34_Witness ==
    /\ h_last.op = "get_session"
    /\ h_last.created
    /\ h_held # 0
    /\ h_held # h_last.ret
    /\ \A u \in DOMAIN h_store : h_store[u] # h_held
    /\ SessionAt(h_heap, h_held).intent["role"] = "analyst"
    /\ SessionAt(h_heap, h_held).attempts = 1
    /\ Len(SessionAt(h_heap, h_held).chat_history) = 1
    /\ SessionAt(h_heap, h_last.ret) = NewSession


(***************************************************************************)
(* reset_session during a handle_user_query call                           *)
(***************************************************************************)
\* the thread that ran handle_user_query, when the other one ran reset_session
Handlers == {t \in Threads : c_loc[t].result \notin {"none", "reset"}}

\* the user's session after the whole turn of thread t
WholeTurn(t) ==
    TurnStore(c_in.store, ThreadUser, c_in.call[t].text,
              c_in.call[t].out, c_in.call[t].svc)[ThreadUser]

\* C35: when a reset_session(u) ran between the steps of a
\* handle_user_query(u) call and both have finished, the store holds no
\* session for u, or the initial one, or the one the whole turn produces,
\* and the intent returned to the caller is the intent of the stored session.
C35_ResetDuringTurn ==
    ((\A t \in Threads : c_pc[t] = "done") /\ (\E t \in Threads : c_loc[t].result = "reset")) =>
        \A t \in Handlers :
            \/ ThreadUser \notin DOMAIN c_sessions
            \/ /\ StoredSession \in {NewSession, WholeTurn(t)}
               /\ c_loc[t].result # "KeyError"
               /\ c_loc[t].session = c_sessions[ThreadUser]


(***************************************************************************)
(* run_cli_assistant against handle_user_query                             *)
(***************************************************************************)
\* C36: for the extraction results that run_cli_assistant reads, applied
\* to a fresh session, the loop ends in success exactly when the last
\* handle_user_query call returns 'intent_complete', ends in the failure
\* message exactly when it returns 'error', and the loop's intent is the
\* intent of the orchestrator's session.
C36_CliAgrees ==
    (cli_script = "run_cli_assistant" /\ cli_reads > 0) =>
        /\ cli_pc = "complete" <=> result.type = "intent_complete"
        /\ cli_pc = "failed" <=> result.type = "error"
        /\ cli_pc = "read" <=> result.type = "followup_required"
        /\ cli_intent = user_sessions[ThreadUser].intent
        /\ cli_attempt = user_sessions[ThreadUser].attempts

\* the third result completes an intent collected over three reads
C36_Witness ==
    /\ cli_script = "run_cli_assistant"
    /\ cli_reads = 3
    /\ cli_pc = "complete"
    /\ result.type = "intent_complete"
    /\ user_sessions[ThreadUser].attempts = 2
    /\ user_sessions[ThreadUser].intent["role"] = "analyst"
    /\ Len(user_sessions[ThreadUser].chat_history) = 5


(***************************************************************************)
(* Resolution of the entries in the text-matching scheme                   *)
(***************************************************************************)
\* a and b, lower-cased, stand in a substring relation in either direction
Related(a, b) ==
    IsSubstr(LowerText(a), LowerText(b)) \/ IsSubstr(LowerText(b), LowerText(a))

\* the candidates whose title and company are related to those of entry e
RelatedCandidates(e) ==
    {j \in 1..Len(Considered) :
        /\ Related(EntryText(e, "title"), Considered[j].title)
        /\ Related(EntryText(e, "company"), Considered[j].company)}

\* C37: in the text-matching scheme each record of the response resolves to
\* the first candidate, in incoming order, whose title and company each
\* stand in a case-insensitive substring relation, in either direction,
\* with the record's; so a record with empty or absent title and company
\* resolves to the first candidate, not to a placeholder, whenever there is
\* a candidate.
C37_FirstRelatedCandidate ==
    TextResponseRead =>
        /\ ~rr_out.raised /\ rr_out.list
        /\ Len(rr_out.value) = Cardinality(RecordEntries)
        /\ \A n \in 1..Len(rr_out.value) :
              LET i == NthPosition(RecordEntries, n)
                  e == rr_resp.items[i]
              IN  /\ \A j \in RelatedCandidates(e) :
                         (\A k \in RelatedCandidates(e) : j <= k) =>
                             /\ rr_out.value[n].job_id = Considered[j].job_id
                             /\ rr_out.value[n].title = Considered[j].title
                             /\ rr_out.value[n].similarity_score = Considered[j].similarity_score
                             /\ rr_out.value[n].final_rank = i
                  /\ (EntryText(e, "title") = <<>> /\ EntryText(e, "company") = <<>>
                         /\ Len(Considered) > 0) =>
                         /\ rr_out.value[n].job_id = Considered[1].job_id
                         /\ ~IsPlaceholder(rr_out.value[n], e, i)

\* ten candidates, of which the first, the fifth and the seventh are related
\* to the first record; the second record has no title and no company
C37_Witness ==
    /\ TextResponseRead
    /\ Len(rr_jobs) = TOP_N
    /\ rr_resp.items = <<TextEntry(<<"data", "analyst">>, <<"ACME">>), IndexEntry(1, 2)>>
    /\ RelatedCandidates(rr_resp.items[1]) = {1, 5, 7}
    /\ Len(rr_out.value) = 2
    /\ rr_out.value[1].job_id = <<"id_", 1>>
    /\ rr_out.value[2].job_id = <<"id_", 1>>
    /\ rr_out.value[2].final_rank = 2


(***************************************************************************)
(* Arrays without a usable entry                                           *)
(***************************************************************************)
\* the response is read as an array none of whose items is a record
NoRecordResponse ==
    /\ rr_call = "response_chain"
    /\ rr_resp.kind = "text" /\ rr_resp.payload = "array"
    /\ \A i \in 1..Len(rr_resp.items) : rr_resp.items[i].t # "dict"

\* some of the first top_n items of the array is not a record
SomeNonRecord ==
    \E i \in 1..Len(Prefix(rr_resp.items, TOP_N)) : rr_resp.items[i].t # "dict"

\* C38: when the response parses to the empty array or to an array of
\* non-record items only, rerank_jobs of response_chain returns the empty
\* list, not the fallback ranking, whatever the candidates; a non-record
\* item among records is skipped alone and the call does not fall back.
C38_EmptyNotFallback ==
    /\ NoRecordResponse =>
          /\ ~rr_out.raised /\ rr_out.list
          /\ rr_out.value = <<>>
          /\ Len(rr_jobs) > 0 => ~IsFallbackRanking(rr_out, rr_jobs)
    /\ (TextResponseRead /\ SomeNonRecord) =>
          /\ ~rr_out.raised /\ rr_out.list
          /\ Len(rr_out.value) = Cardinality(RecordEntries)
          /\ \A n \in 1..Len(rr_out.value) :
                rr_out.value[n].final_rank = NthPosition(RecordEntries, n)
          /\ Len(rr_jobs) > 0 => ~IsFallbackRanking(rr_out, rr_jobs)

\* two items that are not records, with three candidates: the empty list
C38_Witness ==
    /\ NoRecordResponse
    /\ rr_resp.items = <<StringEntry, StringEntry>>
    /\ Len(rr_jobs) = 3
    /\ ~rr_out.raised /\ rr_out.list
    /\ rr_out.value = <<>>


(***************************************************************************)
(* Repeated candidates                                                     *)
(***************************************************************************)
\* C39: the rerank result never holds the same original candidate twice:
\* no two items of the returned list are copies of one input candidate.
C39_NoCandidateTwice ==
    (rr_call \in {"response_chain", "job_ranker"} /\ ~rr_out.raised /\ rr_out.list) =>
        \A k \in 1..Len(rr_out.value) : \A l \in 1..Len(rr_out.value) :
            \A j \in 1..Len(rr_jobs) :
                (k # l /\ rr_out.value[k].job_id = rr_jobs[j].job_id) =>
                    rr_out.value[l].job_id # rr_jobs[j].job_id


(***************************************************************************)
(* The caller's candidates after a rerank call                             *)
(***************************************************************************)
Annotations == {"final_rank", "selection_reason"}

\* C40: after any rerank call the caller's candidate list is the list that
\* was passed, in length and order, no candidate of it has final_rank or
\* selection_reason, and every returned item carries both.
C40_InputsKeptOutputsAnnotated ==
    (rr_call \in {"response_chain", "job_ranker"} /\ ~rr_out.raised /\ rr_out.list) =>
        /\ rr_jobs = Jobs(Len(rr_jobs))
        /\ \A j \in 1..Len(rr_jobs) : DOMAIN rr_jobs[j] \cap Annotations = {}
        /\ \A k \in 1..Len(rr_out.value) : Annotations \subseteq DOMAIN rr_out.value[k]

====
